---- MODULE Spec2Model ----
(***************************************************************************)
(* Reflow Scheduler: SchedulerService.reflow and the dependency graph      *)
(* service it drives (buildDependencyGraph, topologicalSort, findCycle),   *)
(* together with the calendar engine (shift / maintenance arithmetic).     *)
(*                                                                         *)
(* Instants are integers counted in ticks from Sunday 00:00 UTC of week 0. *)
(* An hour has TicksPerHour ticks; durationMinutes is counted in the same  *)
(* ticks and is a whole number of hours, the unit durations are counted    *)
(* in, while instants are finer.  ISO date strings are modelled by the     *)
(* instant they parse to (all inputs are UTC strings of one format, for    *)
(* which string order and instant order agree).  Work order ids are        *)
(* integers, ordered as localeCompare orders the id strings.               *)
(***************************************************************************)
EXTENDS Integers, Sequences, FiniteSets, TLC

(***************************************************************************)
(* Bounds of the model                                                     *)
(***************************************************************************)
TicksPerHour == 2
MaxCalls == 2

(***************************************************************************)
(* Program constants                                                       *)
(***************************************************************************)
HoursPerDay == 24
DaysPerWeek == 7
SearchDays == 30
WalkDays == 365

Day == HoursPerDay * TicksPerHour

\* "no value": the null / undefined / thrown NoWorkableSlot of a DateTime result
NoTime == -1

\* sentinel entries findCycle can put in its list
UnknownCycle == -1
Ellipsis == -2

(***************************************************************************)
(* Generic helpers                                                         *)
(***************************************************************************)
Range(s) == {s[i] : i \in 1..Len(s)}

SetMax(S) == CHOOSE x \in S : \A y \in S : y <= x

SetMin(S) == CHOOSE x \in S : \A y \in S : x <= y

IndexOf(s, x) == SetMin({i \in 1..Len(s) : s[i] = x})

\* Hour h of day d (d counted from the epoch, a Sunday) as an instant
At(d, h) == d * Day + h * TicksPerHour

(***************************************************************************)
(* Calendar engine (utils/date-utils)                                      *)
(***************************************************************************)
DayOf(t) == t \div Day

\* The interval [start, end) a shift definition covers on absolute day d;
\* endHour < startHour wraps into the next day, endHour = startHour is empty.
ShiftStart(shift, d) == At(d, shift.startHour)

ShiftEnd(shift, d) ==
  IF shift.endHour > shift.startHour THEN At(d, shift.endHour)
  ELSE IF shift.endHour < shift.startHour THEN At(d + 1, shift.endHour)
  ELSE At(d, shift.startHour)

InShift(t, wc) ==
  \E k \in 1..Len(wc.shifts) : \E d \in {DayOf(t) - 1, DayOf(t)} :
     /\ d % DaysPerWeek = wc.shifts[k].dayOfWeek
     /\ ShiftStart(wc.shifts[k], d) <= t
     /\ t < ShiftEnd(wc.shifts[k], d)

InMaintenance(t, wc) ==
  \E k \in 1..Len(wc.maintenanceWindows) :
     /\ wc.maintenanceWindows[k].startDate <= t
     /\ t < wc.maintenanceWindows[k].endDate

isWithinWorkingHours(t, wc) == InShift(t, wc) /\ ~InMaintenance(t, wc)

\* Clip [a, b) by each window in list order; <<a, a>> stands for the empty slot.
RECURSIVE subtractFrom(_, _, _, _)
subtractFrom(a, b, windows, k) ==
  IF k > Len(windows) THEN <<a, b>>
  ELSE LET w == windows[k] IN
       IF a >= b THEN <<a, a>>
       ELSE IF w.startDate <= a /\ w.endDate >= b THEN <<a, a>>
       ELSE IF w.startDate <= a /\ a < w.endDate THEN subtractFrom(w.endDate, b, windows, k + 1)
       ELSE IF w.startDate < b /\ b <= w.endDate THEN subtractFrom(a, w.startDate, windows, k + 1)
       ELSE IF a < w.startDate /\ w.endDate < b THEN subtractFrom(a, w.startDate, windows, k + 1)
       ELSE subtractFrom(a, b, windows, k + 1)

subtractMaintenanceWindows(a, b, windows) == subtractFrom(a, b, windows, 1)

\* The part of shift sh on day d that lies at or after `from`, before
\* maintenance is subtracted
ClippedStart(sh, d, from) == IF ShiftStart(sh, d) > from THEN ShiftStart(sh, d) ELSE from

\* What is left of shift occurrence c = <<day, shift index>> from `from` on,
\* once maintenance is subtracted
CandidateSlot(c, from, wc) ==
  subtractMaintenanceWindows(ClippedStart(wc.shifts[c[2]], c[1], from),
                             ShiftEnd(wc.shifts[c[2]], c[1]), wc.maintenanceWindows)

HasTimeLeft(slot) == slot[1] < slot[2]

\* Candidate shifts probed from `from`: every shift occurrence of the next
\* SearchDays days (and the overnight shift of the day before) that still has
\* time left at or after `from`, and no later than SearchDays days after it,
\* once maintenance is subtracted.
Candidates(from, wc) ==
  {c \in ((DayOf(from) - 1)..(DayOf(from) + SearchDays)) \X (1..Len(wc.shifts)) :
     /\ c[1] % DaysPerWeek = wc.shifts[c[2]].dayOfWeek
     /\ HasTimeLeft(CandidateSlot(c, from, wc))
     /\ CandidateSlot(c, from, wc)[1] <= from + SearchDays * Day}

CandidateStart(c, from, wc) == CandidateSlot(c, from, wc)[1]

\* Candidates are taken in chronological order of their shift start.
FirstCandidate(cs, wc) ==
  CHOOSE c \in cs : \A o \in cs :
    \/ ShiftStart(wc.shifts[c[2]], c[1]) < ShiftStart(wc.shifts[o[2]], o[1])
    \/ /\ ShiftStart(wc.shifts[c[2]], c[1]) = ShiftStart(wc.shifts[o[2]], o[1])
       /\ c[2] <= o[2]

\* NoTime (NoWorkableSlot) when the search horizon is exhausted
StartOfFirst(cs, from, wc) ==
  IF cs = {} THEN NoTime ELSE CandidateStart(FirstCandidate(cs, wc), from, wc)

\* Smallest valid instant >= from, or NoTime.
findEarliestValidStart(from, wc) ==
  IF isWithinWorkingHours(from, wc) THEN from
  ELSE StartOfFirst(Candidates(from, wc), from, wc)

\* End of the contiguous shift time containing t (touching shifts merge).
RECURSIVE ShiftRunEnd(_, _)
ShiftRunEnd(t, wc) ==
  LET occ == {c \in {DayOf(t) - 1, DayOf(t)} \X (1..Len(wc.shifts)) :
                 /\ c[1] % DaysPerWeek = wc.shifts[c[2]].dayOfWeek
                 /\ ShiftStart(wc.shifts[c[2]], c[1]) <= t
                 /\ t < ShiftEnd(wc.shifts[c[2]], c[1])}
      covering == {ShiftEnd(wc.shifts[c[2]], c[1]) : c \in occ}
  IN IF covering = {} THEN t ELSE ShiftRunEnd(SetMax(covering), wc)

\* A slot starting at s ends with its shift run or at the next maintenance
\* window, whichever comes first.
SlotEnd(s, shiftEnd, wc) ==
  LET after == {k \in 1..Len(wc.maintenanceWindows) :
                  /\ wc.maintenanceWindows[k].startDate > s
                  /\ wc.maintenanceWindows[k].startDate < shiftEnd}
  IN IF after = {} THEN shiftEnd
     ELSE SetMin({wc.maintenanceWindows[k].startDate : k \in after})

SlotFrom(s, wc) ==
  IF s = NoTime THEN <<NoTime, NoTime>> ELSE <<s, SlotEnd(s, ShiftRunEnd(s, wc), wc)>>

\* Next maximal contiguous workable slot <<start, end>>, or <<NoTime, NoTime>>.
findNextWorkableSlot(from, wc) == SlotFrom(findEarliestValidStart(from, wc), wc)

\* Durations count whole units of DurationUnit ticks, instants are finer: a
\* slot's minutes are its length in whole units, what is left over is lost.
DurationUnit == TicksPerHour

SlotMinutes(slot) == ((slot[2] - slot[1]) \div DurationUnit) * DurationUnit

\* Walk durationMinutes of working time forward from cursor: consume the next
\* slot, and go on from its end with what remains.
RECURSIVE walkSlots(_, _, _, _)
RECURSIVE consumeSlot(_, _, _, _)
walkSlots(cursor, remaining, limit, wc) ==
  IF cursor > limit THEN NoTime
  ELSE consumeSlot(findNextWorkableSlot(cursor, wc), remaining, limit, wc)

consumeSlot(slot, remaining, limit, wc) ==
  IF slot[1] = NoTime THEN NoTime
  ELSE IF SlotMinutes(slot) >= remaining THEN slot[1] + remaining
  ELSE walkSlots(slot[2], remaining - SlotMinutes(slot), limit, wc)

calculateEndDateWithShifts(start, durationMinutes, wc) ==
  IF durationMinutes = 0 THEN start
  ELSE walkSlots(start, durationMinutes, start + WalkDays * Day, wc)

(***************************************************************************)
(* Errors thrown by the core, as one record shape                          *)
(***************************************************************************)
NoError == [name |-> "none", workOrderId |-> 0, otherId |-> 0, cycle |-> <<>>]

MissingWorkCenterError(orderId, wcId) ==
  [name |-> "MissingWorkCenterError", workOrderId |-> orderId, otherId |-> wcId, cycle |-> <<>>]

MissingDependencyError(orderId, depId) ==
  [name |-> "MissingDependencyError", workOrderId |-> orderId, otherId |-> depId, cycle |-> <<>>]

CircularDependencyError(cycle) ==
  [name |-> "CircularDependencyError", workOrderId |-> 0, otherId |-> 0, cycle |-> cycle]

NoWorkableSlotError(orderId) ==
  [name |-> "NoWorkableSlot", workOrderId |-> orderId, otherId |-> 0, cycle |-> <<>>]

(***************************************************************************)
(* Dependency graph (dag.service)                                          *)
(***************************************************************************)
\* new Set(list): the distinct elements in order of first insertion
RECURSIVE Dedup(_)
Dedup(s) ==
  IF s = <<>> THEN <<>>
  ELSE LET front == Dedup(SubSeq(s, 1, Len(s) - 1))
           last == s[Len(s)]
       IN IF last \in Range(front) THEN front ELSE Append(front, last)

DocIds(workOrders) == [i \in 1..Len(workOrders) |-> workOrders[i].docId]

OrderById(workOrders, id) ==
  workOrders[SetMax({i \in 1..Len(workOrders) : workOrders[i].docId = id})]

\* (variant: the in-degree of a new node is not counted)
NodeInDegree_Zero(order) == 0

\* inDegree of a new node: the length of the declared dependency list
NodeInDegree(order) == Len(order.dependsOnWorkOrderIds)

\* Pass 1: one node per order
NewNode(order) ==
  [workOrder |-> order,
   dependencies |-> Dedup(order.dependsOnWorkOrderIds),
   dependents |-> <<>>,
   inDegree |-> NodeInDegree(order)]

\* (variant: the lookup of a dependency is not checked)
IsKnownNode_Unchecked(depId, nodes) == TRUE

\* nodes.get(depId) finds a node
IsKnownNode(depId, nodes) == depId \in DOMAIN nodes

\* Pass 2 visits (node, depId) pairs in insertion order; the pairs whose
\* depId is no node, in that order
RECURSIVE MissingPairs(_, _)
MissingPairs(allIds, nodes) ==
  IF allIds = <<>> THEN <<>>
  ELSE LET id == Head(allIds)
           deps == nodes[id].dependencies
           IsMissing(d) == ~IsKnownNode(d, nodes)
           bad == SelectSeq(deps, IsMissing)
       IN [k \in 1..Len(bad) |-> <<id, bad[k]>>] \o MissingPairs(Tail(allIds), nodes)

\* Reverse edges: ids are added to dependents in the order pass 2 meets them
DependentsOf(depId, allIds, nodes) ==
  LET DependsOn(id) == depId \in Range(nodes[id].dependencies)
  IN SelectSeq(Dedup(allIds), DependsOn)

buildDependencyGraph(workOrders) ==
  LET allIds == DocIds(workOrders)
      pass1 == [id \in Range(allIds) |-> NewNode(OrderById(workOrders, id))]
      missing == MissingPairs(Dedup(allIds), pass1)
  IN IF missing # <<>>
     THEN [error |-> MissingDependencyError(missing[1][1], missing[1][2]),
           nodes |-> pass1, allIds |-> allIds]
     ELSE [error |-> NoError,
           nodes |-> [id \in Range(allIds) |->
                        [pass1[id] EXCEPT !.dependents = DependentsOf(id, allIds, pass1)]],
           allIds |-> allIds]

\* An ISO 8601 string: its wall-clock digits followed by one of the suffixes
\* ".000Z", "Z" (both UTC) and ".000+02:00"
IsoText(wall, suffix) == [wall |-> wall, suffix |-> suffix]

UtcOffset(suffix) == IF suffix = ".000+02:00" THEN 2 * TicksPerHour ELSE 0

\* DateTime.fromISO: the instant the string denotes
fromISO(text) == text.wall - UtcOffset(text.suffix)

\* DateTime.toISO in the UTC zone
toISO(t) == IsoText(t, ".000Z")

\* String.localeCompare on two such strings: -1, 0 or 1.  The wall-clock
\* digits decide first; the suffixes collate ".000+02:00" < ".000Z" < "Z".
SuffixRank(suffix) ==
  IF suffix = ".000+02:00" THEN 1 ELSE IF suffix = ".000Z" THEN 2 ELSE 3

localeCompare(s, t) ==
  IF s.wall # t.wall THEN (IF s.wall < t.wall THEN -1 ELSE 1)
  ELSE IF SuffixRank(s.suffix) # SuffixRank(t.suffix)
       THEN (IF SuffixRank(s.suffix) < SuffixRank(t.suffix) THEN -1 ELSE 1)
       ELSE 0

\* (variant: equal start dates are not separated by id)
ComesBefore_DateOnly(a, b, nodes) ==
  localeCompare(nodes[a].workOrder.startDateText, nodes[b].workOrder.startDateText) < 0

\* (variant: the ready queue is ordered by id alone)
ComesBefore_ById(a, b, nodes) == a < b

\* The comparator of readyQueue.sort: start date string, then id
ComesBefore(a, b, nodes) ==
  \/ localeCompare(nodes[a].workOrder.startDateText, nodes[b].workOrder.startDateText) < 0
  \/ /\ localeCompare(nodes[a].workOrder.startDateText, nodes[b].workOrder.startDateText) = 0
     /\ a < b

RECURSIVE InsertSorted(_, _, _)
InsertSorted(x, sorted, nodes) ==
  IF sorted = <<>> THEN <<x>>
  ELSE IF ComesBefore(x, Head(sorted), nodes) THEN <<x>> \o sorted
  ELSE <<Head(sorted)>> \o InsertSorted(x, Tail(sorted), nodes)

RECURSIVE SortReady(_, _)
SortReady(queue, nodes) ==
  IF queue = <<>> THEN <<>>
  ELSE InsertSorted(queue[Len(queue)], SortReady(SubSeq(queue, 1, Len(queue) - 1), nodes), nodes)

\* Working copy of the in-degrees and the initial ready queue
InitialInDegrees(g) == [id \in DOMAIN g.nodes |-> g.nodes[id].inDegree]

InitialReady(g, deg) ==
  LET IsReady(id) == deg[id] = 0
  IN SelectSeq(Dedup(g.allIds), IsReady)

\* One pass of the loop body after the shift: the dependents' in-degrees
DecrementDependents(deg, dependents) ==
  [id \in DOMAIN deg |-> IF id \in Range(dependents) THEN deg[id] - 1 ELSE deg[id]]

\* (variant: every dependent is pushed, whatever its new in-degree)
BecomesReady_Always(deg, dependents) == dependents

\* if (newInDegree === 0) readyQueue.push(dependentId)
BecomesReady(deg, dependents) ==
  LET NowZero(id) == deg[id] - 1 = 0
  IN SelectSeq(dependents, NowZero)

\* findCycle: depth-first search along the dependencies
RECURSIVE dfs(_, _, _)
RECURSIVE dfsDeps(_, _, _, _)
dfs(nodeId, st, nodes) ==
  LET entered == [visited |-> st.visited \cup {nodeId}, path |-> Append(st.path, nodeId),
                  cycle |-> <<>>]
  IN IF nodeId \notin DOMAIN nodes THEN entered
     ELSE dfsDeps(nodeId, 1, entered, nodes)

dfsDeps(nodeId, i, st, nodes) ==
  LET deps == nodes[nodeId].dependencies IN
  IF i > Len(deps)
  THEN [st EXCEPT !.path = SubSeq(st.path, 1, Len(st.path) - 1)]
  ELSE LET depId == deps[i] IN
       IF depId \notin st.visited
       THEN LET r == dfs(depId, st, nodes) IN
            IF r.cycle # <<>> THEN r ELSE dfsDeps(nodeId, i + 1, r, nodes)
       ELSE IF depId \in Range(st.path)
       THEN [st EXCEPT !.cycle = Append(SubSeq(st.path, IndexOf(st.path, depId), Len(st.path)), depId)]
       ELSE dfsDeps(nodeId, i + 1, st, nodes)

Unprocessed(g, remainingInDegrees) ==
  LET Positive(id) == remainingInDegrees[id] > 0
  IN SelectSeq(Dedup(g.allIds), Positive)

findCycle(g, remainingInDegrees) ==
  LET unprocessed == Unprocessed(g, remainingInDegrees) IN
  IF unprocessed = <<>> THEN <<UnknownCycle>>
  ELSE LET startNode == unprocessed[1]
           r == dfs(startNode, [visited |-> {}, path |-> <<>>, cycle |-> <<>>], g.nodes)
       IN IF r.cycle # <<>> THEN r.cycle ELSE <<startNode, Ellipsis, startNode>>

\* topologicalSort as one call: the while loop from a sorted ready queue
RECURSIVE KahnLoop(_, _, _, _)
RECURSIVE KahnStep(_, _, _, _)
KahnLoop(g, deg, queue, sorted) ==
  IF queue # <<>> THEN KahnStep(g, deg, SortReady(queue, g.nodes), sorted)
  ELSE IF Len(sorted) # Cardinality(DOMAIN g.nodes)
  THEN [error |-> CircularDependencyError(findCycle(g, deg)), sortedOrders |-> sorted]
  ELSE [error |-> NoError, sortedOrders |-> sorted]

KahnStep(g, deg, sortedQueue, sorted) ==
  KahnLoop(g,
           DecrementDependents(deg, g.nodes[Head(sortedQueue)].dependents),
           Tail(sortedQueue) \o BecomesReady(deg, g.nodes[Head(sortedQueue)].dependents),
           Append(sorted, Head(sortedQueue)))

topologicalSort(g) ==
  KahnLoop(g, InitialInDegrees(g), InitialReady(g, InitialInDegrees(g)), <<>>)

\* getTransitiveDependents / getTransitiveDependencies: breadth-first search
\* along node.dependents or node.dependencies.  `result` is the Set, in
\* insertion order.
TraversedEdges(node, direction) ==
  IF direction = "dependents" THEN node.dependents ELSE node.dependencies

\* if (!result.has(id)) { result.add(id); ... }
NewlyFound(ids, result) ==
  LET IsNew(id) == id \notin Range(result)
  IN SelectSeq(Dedup(ids), IsNew)

\* (variant: what is found is not searched further)
Enqueued_Nothing(found) == <<>>

\* queue.push(id) for every id newly found
Enqueued(found) == found

BfsFound(st, found) ==
  [queue |-> Tail(st.queue) \o Enqueued(found), result |-> st.result \o found]

\* One iteration of the while loop
BfsIteration(st, nodes, direction) ==
  IF Head(st.queue) \notin DOMAIN nodes THEN [st EXCEPT !.queue = Tail(st.queue)]
  ELSE BfsFound(st, NewlyFound(TraversedEdges(nodes[Head(st.queue)], direction), st.result))

BfsStart(workOrderId) == [queue |-> <<workOrderId>>, result |-> <<>>]

RECURSIVE BfsLoop(_, _, _)
BfsLoop(st, nodes, direction) ==
  IF st.queue = <<>> THEN st.result ELSE BfsLoop(BfsIteration(st, nodes, direction), nodes, direction)

getTransitiveDependents(g, workOrderId) == BfsLoop(BfsStart(workOrderId), g.nodes, "dependents")

getTransitiveDependencies(g, workOrderId) ==
  BfsLoop(BfsStart(workOrderId), g.nodes, "dependencies")

\* The messages validateDependencies pushes itself, in the shape of the errors
SelfDependencyMessage(orderId) ==
  [name |-> "depends on itself", workOrderId |-> orderId, otherId |-> orderId, cycle |-> <<>>]

MissingReferenceMessage(orderId, depId) ==
  [name |-> "depends on non-existent order", workOrderId |-> orderId, otherId |-> depId,
   cycle |-> <<>>]

\* The inner loop of validateDependencies over one order's dependency list
RECURSIVE ReferenceErrors(_, _, _)
ReferenceErrors(orderId, deps, orderIds) ==
  IF deps = <<>> THEN <<>>
  ELSE (IF Head(deps) = orderId THEN <<SelfDependencyMessage(orderId)>>
        ELSE IF Head(deps) \notin orderIds THEN <<MissingReferenceMessage(orderId, Head(deps))>>
        ELSE <<>>)
       \o ReferenceErrors(orderId, Tail(deps), orderIds)

\* The outer loop over the orders
RECURSIVE CollectReferenceErrors(_, _)
CollectReferenceErrors(orders, orderIds) ==
  IF orders = <<>> THEN <<>>
  ELSE ReferenceErrors(Head(orders).docId, Head(orders).dependsOnWorkOrderIds, orderIds)
       \o CollectReferenceErrors(Tail(orders), orderIds)

\* The try block: e.message of what buildDependencyGraph or topologicalSort throws
SortFailure(sorted) == IF sorted.error # NoError THEN <<sorted.error>> ELSE <<>>

GraphErrors(g) == IF g.error # NoError THEN <<g.error>> ELSE SortFailure(topologicalSort(g))

\* (variant: the graph is never built and sorted)
CycleCheck_Skipped(errors, workOrders) == errors

\* if (errors.length === 0) { try ... }
CycleCheck(errors, workOrders) ==
  IF errors = <<>> THEN GraphErrors(buildDependencyGraph(workOrders)) ELSE errors

ValidationResult(errors) == [isValid |-> errors = <<>>, errors |-> errors]

validateDependencies(workOrders) ==
  ValidationResult(CycleCheck(CollectReferenceErrors(workOrders, Range(DocIds(workOrders))),
                              workOrders))

(***************************************************************************)
(* Scheduler core (scheduler.service)                                      *)
(***************************************************************************)
\* Map.set
MapSet(m, k, v) == [x \in (DOMAIN m) \cup {k} |-> IF x = k THEN v ELSE m[x]]

EmptyMap == [x \in {} |-> 0]

\* (variant: an order that declares dependencies is not validated)
HasWorkCenter_IndependentOnly(order, centers) ==
  order.dependsOnWorkOrderIds # <<>> \/ order.workCenterId \in DOMAIN centers

\* (variant: maintenance orders are not validated)
HasWorkCenter_MaintenanceExempt(order, centers) ==
  order.isMaintenance \/ order.workCenterId \in DOMAIN centers

\* this.workCenters.has(order.data.workCenterId)
HasWorkCenter(order, centers) == order.workCenterId \in DOMAIN centers

\* validateWorkCenters: the error it throws, or NoError
RECURSIVE validateWorkCenters(_, _)
validateWorkCenters(orders, centers) ==
  IF orders = <<>> THEN NoError
  ELSE IF ~HasWorkCenter(Head(orders), centers)
  THEN MissingWorkCenterError(Head(orders).docId, Head(orders).workCenterId)
  ELSE validateWorkCenters(Tail(orders), centers)

\* (variant: the original start is never a constraint)
OriginalStartConstraint_Dropped(order, cfg) == {}

\* Constraint 1: the original start, unless an earlier start is allowed
OriginalStartConstraint(order, cfg) ==
  IF ~cfg.allowEarlierStart THEN {order.startDate} ELSE {}

\* (variant: the machine's availability is left out of the constraints)
MachineConstraint_Ignored(order, availability) == {}

\* (variant: the latest availability of any work center is the constraint)
MachineConstraint_AnyCenter(order, availability) ==
  IF DOMAIN availability # {}
  THEN {SetMax({availability[wc] : wc \in DOMAIN availability})} ELSE {}

\* Constraint 2: the work center's availability, when it has one
MachineConstraint(order, availability) ==
  IF order.workCenterId \in DOMAIN availability
  THEN {availability[order.workCenterId]} ELSE {}

\* (variant: only the first declared dependency is looked up)
DependencyConstraint_FirstOnly(order, endTimes) ==
  IF order.dependsOnWorkOrderIds = <<>> \/ order.dependsOnWorkOrderIds[1] \notin DOMAIN endTimes
  THEN {}
  ELSE {endTimes[order.dependsOnWorkOrderIds[1]]}

\* Constraint 3: the end of every dependency that has one recorded
DependencyConstraint(order, endTimes) ==
  {endTimes[d] : d \in Range(order.dependsOnWorkOrderIds) \cap DOMAIN endTimes}

\* maxDateTime(...constraints) ?? DateTime.now()
calculateEarliestStart(order, availability, endTimes, cfg, now) ==
  LET constraints == OriginalStartConstraint(order, cfg)
                       \cup MachineConstraint(order, availability)
                       \cup DependencyConstraint(order, endTimes)
  IN IF constraints = {} THEN now ELSE SetMax(constraints)

\* Maintenance branch: the availability moves only forward
\* (variant: the end of a fixed order always replaces the availability)
MaintenanceAvailability_Overwrites(order, availability) ==
  MapSet(availability, order.workCenterId, order.endDate)

\* Lines 167-170: the availability moves only forward past a fixed order
MaintenanceAvailability(order, availability) ==
  IF \/ order.workCenterId \notin DOMAIN availability
     \/ order.endDate > availability[order.workCenterId]
  THEN MapSet(availability, order.workCenterId, order.endDate)
  ELSE availability

\* (variant: the end of a fixed order is recomputed from its duration)
MaintenanceResult_Recomputed(order) ==
  [workOrderId |-> order.docId,
   originalStartDate |-> order.startDate,
   originalEndDate |-> order.endDate,
   newStartDate |-> order.startDate,
   newEndDate |-> order.startDate + order.durationMinutes,
   wasRescheduled |-> FALSE,
   isFixed |-> TRUE]

MaintenanceResult(order) ==
  [workOrderId |-> order.docId,
   originalStartDate |-> order.startDate,
   originalEndDate |-> order.endDate,
   newStartDate |-> order.startDate,
   newEndDate |-> order.endDate,
   wasRescheduled |-> FALSE,
   isFixed |-> TRUE]

\* (variant: the duration is added as calendar time)
ScheduledEnd_CalendarTime(validStart, order, wc) == validStart + order.durationMinutes

\* The end of a movable order placed at validStart
ScheduledEnd(validStart, order, wc) ==
  calculateEndDateWithShifts(validStart, order.durationMinutes, wc)

\* (variant: only a moved start makes an order rescheduled)
WasRescheduled_StartOnly(order, validStart, newEnd) == validStart # order.startDate

\* !validStart.equals(originalStart) || !newEnd.equals(originalEnd)
WasRescheduled(order, validStart, newEnd) ==
  validStart # order.startDate \/ newEnd # order.endDate

\* (variant: the result carries the work center id in place of the order id)
ScheduledResult_ByCenter(order, validStart, newEnd) ==
  [workOrderId |-> order.workCenterId,
   originalStartDate |-> order.startDate,
   originalEndDate |-> order.endDate,
   newStartDate |-> validStart,
   newEndDate |-> newEnd,
   wasRescheduled |-> WasRescheduled(order, validStart, newEnd),
   isFixed |-> FALSE]

ScheduledResult(order, validStart, newEnd) ==
  [workOrderId |-> order.docId,
   originalStartDate |-> order.startDate,
   originalEndDate |-> order.endDate,
   newStartDate |-> validStart,
   newEndDate |-> newEnd,
   wasRescheduled |-> WasRescheduled(order, validStart, newEnd),
   isFixed |-> FALSE]

\* (variant: every rescheduled order gets a warning)
DelayWarning_WhenRescheduled(order, validStart, newEnd) ==
  IF WasRescheduled(order, validStart, newEnd)
  THEN <<[workOrderId |-> order.docId, delayMinutes |-> validStart - order.startDate]>>
  ELSE <<>>

\* The warning pushed for a delayed order, if any
DelayWarning(order, validStart, newEnd) ==
  IF WasRescheduled(order, validStart, newEnd) /\ validStart - order.startDate > 0
  THEN <<[workOrderId |-> order.docId, delayMinutes |-> validStart - order.startDate]>>
  ELSE <<>>

\* (variant: a placed order holds its work center for at least one tick)
MovableAvailability_AtLeastOneTick(order, availability, validStart, newEnd) ==
  MapSet(availability, order.workCenterId,
         IF newEnd = validStart THEN validStart + 1 ELSE newEnd)

\* this.workCenterAvailability.set(workOrder.data.workCenterId, newEnd)
MovableAvailability(order, availability, validStart, newEnd) ==
  MapSet(availability, order.workCenterId, newEnd)

\* (variant: an order that cannot be placed keeps its dates and the pass goes on)
MovableOutcome_KeepsDates(order, availability, endTimes, validStart, newEnd) ==
  IF newEnd = NoTime
  THEN [failed |-> FALSE, availability |-> availability, endTimes |-> endTimes,
        result |-> <<ScheduledResult(order, order.startDate, order.endDate)>>,
        warning |-> <<>>]
  ELSE [failed |-> FALSE,
        availability |-> MovableAvailability(order, availability, validStart, newEnd),
        endTimes |-> MapSet(endTimes, order.docId, newEnd),
        result |-> <<ScheduledResult(order, validStart, newEnd)>>,
        warning |-> DelayWarning(order, validStart, newEnd)]

\* Lines 209-237: the trackers after a movable order is placed, its result
\* and its warning; failed when the calendar engine throws
MovableOutcome(order, availability, endTimes, validStart, newEnd) ==
  IF newEnd = NoTime
  THEN [failed |-> TRUE, availability |-> availability, endTimes |-> endTimes,
        result |-> <<>>, warning |-> <<>>]
  ELSE [failed |-> FALSE,
        availability |-> MovableAvailability(order, availability, validStart, newEnd),
        endTimes |-> MapSet(endTimes, order.docId, newEnd),
        result |-> <<ScheduledResult(order, validStart, newEnd)>>,
        warning |-> DelayWarning(order, validStart, newEnd)]

\* Lines 202-207: the end of the order once its valid start is known
MovableAt(order, availability, endTimes, wc, validStart) ==
  MovableOutcome(order, availability, endTimes, validStart,
                 IF validStart = NoTime THEN NoTime ELSE ScheduledEnd(validStart, order, wc))

\* scheduleWorkOrder: the trackers after the call, the result and the warning,
\* or failed when the calendar engine throws
scheduleWorkOrder(order, availability, endTimes, centers, cfg, now) ==
  IF order.isMaintenance
  THEN [failed |-> FALSE,
        availability |-> MaintenanceAvailability(order, availability),
        endTimes |-> MapSet(endTimes, order.docId, order.endDate),
        result |-> <<MaintenanceResult(order)>>,
        warning |-> <<>>]
  ELSE MovableAt(order, availability, endTimes, centers[order.workCenterId],
                 findEarliestValidStart(
                   calculateEarliestStart(order, availability, endTimes, cfg, now),
                   centers[order.workCenterId]))

CountIf(rs, field) == Cardinality({i \in 1..Len(rs) : rs[i][field]})

\* (variant: every result that is not fixed counts as rescheduled)
Metadata_MovableCounted(orders, rs) ==
  [totalOrders |-> Len(orders),
   rescheduledCount |-> Len(rs) - CountIf(rs, "isFixed"),
   fixedCount |-> CountIf(rs, "isFixed")]

Metadata(orders, rs) ==
  [totalOrders |-> Len(orders),
   rescheduledCount |-> CountIf(rs, "wasRescheduled"),
   fixedCount |-> CountIf(rs, "isFixed")]

(***************************************************************************)
(* Inputs                                                                  *)
(***************************************************************************)
Hours(n) == n * TicksPerHour

Shift(dow, startHour, endHour) == [dayOfWeek |-> dow, startHour |-> startHour, endHour |-> endHour]

Window(startDate, endDate) == [startDate |-> startDate, endDate |-> endDate]

\* An order whose start date string is written as toISO writes it.
\* startDateText is the string, startDate the instant it is parsed to;
\* slack: how far the declared end date lies beyond start + duration
WorkOrder(id, wcId, startDate, duration, slack, maint, deps) ==
  [docId |-> id, workCenterId |-> wcId,
   startDateText |-> toISO(startDate), startDate |-> fromISO(toISO(startDate)),
   endDate |-> startDate + duration + slack, durationMinutes |-> duration,
   isMaintenance |-> maint, dependsOnWorkOrderIds |-> deps]

\* The same order with its start date string written with another suffix
Written(order, suffix) ==
  [order EXCEPT !.startDateText = IsoText(order.startDate + UtcOffset(suffix), suffix),
                !.startDate = fromISO(IsoText(order.startDate + UtcOffset(suffix), suffix))]

\* wc 1: Monday and Tuesday 09-17, maintenance Monday 11-13
\* wc 2: Monday 09-12 and 12-17 (touching), Monday 23 - Tuesday 01 (overnight), Tuesday 09-17
\* wc 3: no shifts at all
\* wc 4: Monday and Tuesday 09-17, maintenance Monday 15-16 listed before
\*       maintenance Monday 13-15
WorkCenterIndex ==
  (1 :> [shifts |-> <<Shift(1, 9, 17), Shift(2, 9, 17)>>,
         maintenanceWindows |-> <<Window(At(1, 11), At(1, 13))>>])
  @@ (2 :> [shifts |-> <<Shift(1, 9, 12), Shift(1, 12, 17), Shift(1, 23, 1), Shift(2, 9, 17)>>,
            maintenanceWindows |-> <<>>])
  @@ (3 :> [shifts |-> <<>>, maintenanceWindows |-> <<>>])
  @@ (4 :> [shifts |-> <<Shift(1, 9, 17), Shift(2, 9, 17)>>,
            maintenanceWindows |-> <<Window(At(1, 15), At(1, 16)), Window(At(1, 13), At(1, 15))>>])

\* Values DateTime.now() can take during a call
Nows == {At(1, 9), At(1, 14)}

Starts == {At(1, 10), At(1, 16)}

LateStarts == {At(1, 12), At(1, 16)}

\* Scheduling inputs: three orders, the first two on work center 1; the first
\* takes three hours (across the maintenance window or across the night)
SchedInputs ==
  {<<WorkOrder(1, 1, s1, Hours(3), 0, m1, <<>>),
     WorkOrder(2, 1, s2, Hours(d2), 0, m2, p2),
     WorkOrder(3, w3, s3, Hours(3), Hours(1), m3, p3)>> :
     s1 \in Starts, s2 \in Starts, s3 \in LateStarts, d2 \in {0, 1, 3},
     m1 \in BOOLEAN, m2 \in BOOLEAN, m3 \in BOOLEAN,
     w3 \in {1, 2, 4}, p2 \in {<<>>, <<1>>}, p3 \in {<<>>, <<1>>, <<1, 2>>}}

\* Inputs scheduled with allowEarlierStart
EarlierInputs == {o \in SchedInputs : ~o[1].isMaintenance /\ ~o[3].isMaintenance}

SeqsUpTo2(S) == {<<>>} \cup {<<x>> : x \in S} \cup {<<x, y>> : x \in S, y \in S}

Permute(orders, perm) == [i \in 1..Len(perm) |-> orders[perm[i]]]

\* Dependency inputs: three movable orders on work center 1; each depends on
\* itself or lists up to two entries (repeats included) among the other two;
\* the third starts first; the dates are written in one format, or the first
\* without milliseconds, or the third with an offset
GraphInputs ==
  {Permute(<<Written(WorkOrder(1, 1, At(1, 10), Hours(1), 0, FALSE, p1), z[1]),
             WorkOrder(2, 1, At(1, 10), Hours(1), 0, FALSE, p2),
             Written(WorkOrder(3, 1, At(1, 9), Hours(1), 0, FALSE, p3), z[2])>>, perm) :
     z \in {<<".000Z", ".000Z">>, <<"Z", ".000Z">>, <<".000Z", ".000+02:00">>},
     p1 \in SeqsUpTo2({2, 3}) \cup {<<1>>},
     p2 \in SeqsUpTo2({1, 3}) \cup {<<2>>},
     p3 \in SeqsUpTo2({1, 2}) \cup {<<3>>},
     perm \in {<<1, 2, 3>>, <<3, 2, 1>>}}

\* Inputs with unknown references (order id 9, work center ids 8 and 9), an
\* order on a work center without shifts, and the empty list
FaultInputs ==
  {<<WorkOrder(1, w1, At(1, 10), Hours(1), 0, FALSE, p1),
     WorkOrder(2, w2, At(1, 10), Hours(1), 0, m2, p2)>> :
     p1 \in {<<>>, <<2>>, <<9>>, <<2, 9>>},
     p2 \in {<<>>, <<1>>, <<9>>, <<9, 1>>},
     w1 \in {1, 8}, w2 \in {1, 3, 9}, m2 \in BOOLEAN}
  \cup {<<>>}

(***************************************************************************)
(* State                                                                   *)
(***************************************************************************)
VARIABLES
  workCenters,             \* this.workCenters
  config,                  \* this.config
  workOrders,              \* the argument of the running reflow call
  pc,                      \* position of the call
  graph,                   \* buildDependencyGraph's result
  inDegrees,               \* topologicalSort: working in-degrees
  readyQueue,              \* topologicalSort: ready queue
  sortedOrders,            \* topologicalSort: result (ids)
  workCenterAvailability,  \* reflow: machine availability tracker
  workOrderEndTimes,       \* reflow: order end tracker
  results,                 \* reflow: results so far
  warnings,                \* reflow: warnings so far
  outcome,                 \* what the call returned or threw
  calls,                   \* number of the running call
  previous,                \* outcome of the call before
  probe                    \* a direct call of an exported function and its answer

vars == <<workCenters, config, workOrders, pc, graph, inDegrees, readyQueue, sortedOrders,
          workCenterAvailability, workOrderEndTimes, results, warnings, outcome, calls, previous,
          probe>>

NoGraph == [error |-> NoError, nodes |-> EmptyMap, allIds |-> <<>>]

NoMetadata == [totalOrders |-> 0, rescheduledCount |-> 0, fixedCount |-> 0]

NoOutcome == [returned |-> FALSE, error |-> NoError, results |-> <<>>, warnings |-> <<>>,
              metadata |-> NoMetadata]

Thrown(e) == [returned |-> TRUE, error |-> e, results |-> <<>>, warnings |-> <<>>,
              metadata |-> NoMetadata]

Returned(rs, ws, md) == [returned |-> TRUE, error |-> NoError, results |-> rs, warnings |-> ws,
                         metadata |-> md]

\* (variant: the trackers of the earlier call are kept)
NewTracker_Kept(old) == old

\* new Map(): the tracker a call starts with, whatever an earlier call left
NewTracker(old) == EmptyMap

(***************************************************************************)
(* reflow as one call; nows[k] is what DateTime.now() reads while the k-th *)
(* order is scheduled                                                      *)
(***************************************************************************)
RECURSIVE ScheduleFrom(_, _, _, _, _, _, _, _, _, _)
RECURSIVE ScheduleNext(_, _, _, _, _, _, _, _, _)
ScheduleFrom(k, sorted, availability, endTimes, rs, ws, orders, centers, cfg, nows) ==
  IF k > Len(sorted) THEN Returned(rs, ws, Metadata(orders, rs))
  ELSE ScheduleNext(scheduleWorkOrder(sorted[k], availability, endTimes, centers, cfg, nows[k]),
                    k, sorted, rs, ws, orders, centers, cfg, nows)

ScheduleNext(r, k, sorted, rs, ws, orders, centers, cfg, nows) ==
  IF r.failed THEN Thrown(NoWorkableSlotError(sorted[k].docId))
  ELSE ScheduleFrom(k + 1, sorted, r.availability, r.endTimes, rs \o r.result,
                    ws \o r.warning, orders, centers, cfg, nows)

SortedWorkOrders(g, ids) == [k \in 1..Len(ids) |-> g.nodes[ids[k]].workOrder]

ReflowSorted(g, sorted, orders, centers, cfg, nows) ==
  IF sorted.error # NoError THEN Thrown(sorted.error)
  ELSE ScheduleFrom(1, SortedWorkOrders(g, sorted.sortedOrders), NewTracker(EmptyMap),
                    NewTracker(EmptyMap), <<>>, <<>>, orders, centers, cfg, nows)

ReflowGraph(g, orders, centers, cfg, nows) ==
  IF g.error # NoError THEN Thrown(g.error)
  ELSE ReflowSorted(g, topologicalSort(g), orders, centers, cfg, nows)

reflow(orders, centers, cfg, nows) ==
  IF validateWorkCenters(orders, centers) # NoError
  THEN Thrown(validateWorkCenters(orders, centers))
  ELSE ReflowGraph(buildDependencyGraph(orders), orders, centers, cfg, nows)

\* State of a fresh call
CallStart ==
  /\ pc = "validate"
  /\ graph = NoGraph
  /\ inDegrees = EmptyMap
  /\ readyQueue = <<>>
  /\ sortedOrders = <<>>
  /\ workCenterAvailability = EmptyMap
  /\ workOrderEndTimes = EmptyMap
  /\ results = <<>>
  /\ warnings = <<>>
  /\ outcome = NoOutcome

NoProbe == [op |-> "none", wc |-> WorkCenterIndex[3], from |-> 0, durationMinutes |-> 0,
            answer |-> NoTime]

InitWith(inputs, earlier) ==
  /\ probe = NoProbe
  /\ workCenters = WorkCenterIndex
  /\ config \in {[allowEarlierStart |-> b] : b \in earlier}
  /\ workOrders \in inputs
  /\ CallStart
  /\ calls = 1
  /\ previous = NoOutcome

Init ==
  \/ InitWith(SchedInputs, {FALSE})
  \/ InitWith(EarlierInputs, {TRUE})
  \/ InitWith(GraphInputs \cup FaultInputs, {FALSE})

(***************************************************************************)
(* reflow, step by step                                                    *)
(***************************************************************************)
Fail(e) ==
  /\ pc' = "failed"
  /\ outcome' = Thrown(e)

ValidateWorkCenters ==
  /\ pc = "validate"
  /\ LET e == validateWorkCenters(workOrders, workCenters) IN
     IF e # NoError THEN Fail(e)
     ELSE pc' = "build" /\ UNCHANGED outcome
  /\ UNCHANGED <<probe, workCenters, config, workOrders, graph, inDegrees, readyQueue, sortedOrders,
                 workCenterAvailability, workOrderEndTimes, results, warnings, calls, previous>>

BuildGraph ==
  /\ pc = "build"
  /\ \E g \in {buildDependencyGraph(workOrders)} :
     IF g.error # NoError THEN Fail(g.error) /\ UNCHANGED graph
     ELSE /\ graph' = g
          /\ pc' = "sortInit"
          /\ UNCHANGED outcome
  /\ UNCHANGED <<probe, workCenters, config, workOrders, inDegrees, readyQueue, sortedOrders,
                 workCenterAvailability, workOrderEndTimes, results, warnings, calls, previous>>

SortInit ==
  /\ pc = "sortInit"
  /\ inDegrees' = InitialInDegrees(graph)
  /\ readyQueue' = InitialReady(graph, InitialInDegrees(graph))
  /\ sortedOrders' = <<>>
  /\ pc' = "sorting"
  /\ UNCHANGED <<probe, workCenters, config, workOrders, graph, workCenterAvailability,
                 workOrderEndTimes, results, warnings, outcome, calls, previous>>

\* One iteration of the while loop
SortStep ==
  /\ pc = "sorting"
  /\ readyQueue # <<>>
  /\ LET sorted == SortReady(readyQueue, graph.nodes)
         currentId == Head(sorted)
         dependents == graph.nodes[currentId].dependents
     IN /\ sortedOrders' = Append(sortedOrders, currentId)
        /\ inDegrees' = DecrementDependents(inDegrees, dependents)
        /\ readyQueue' = Tail(sorted) \o BecomesReady(inDegrees, dependents)
  /\ UNCHANGED <<probe, workCenters, config, workOrders, pc, graph, workCenterAvailability,
                 workOrderEndTimes, results, warnings, outcome, calls, previous>>

\* After the loop: a short result is a cycle
SortEnd ==
  /\ pc = "sorting"
  /\ readyQueue = <<>>
  /\ IF Len(sortedOrders) # Cardinality(DOMAIN graph.nodes)
     THEN Fail(CircularDependencyError(findCycle(graph, inDegrees)))
     ELSE pc' = "scheduling" /\ UNCHANGED outcome
  /\ UNCHANGED <<probe, workCenters, config, workOrders, graph, inDegrees, readyQueue, sortedOrders,
                 workCenterAvailability, workOrderEndTimes, results, warnings, calls, previous>>

\* One iteration of the for loop over the sorted orders
ScheduleStep ==
  /\ pc = "scheduling"
  /\ Len(results) < Len(sortedOrders)
  /\ \E now \in Nows :
       LET order == graph.nodes[sortedOrders[Len(results) + 1]].workOrder IN
       \E r \in {scheduleWorkOrder(order, workCenterAvailability, workOrderEndTimes,
                                   workCenters, config, now)} :
          IF r.failed
          THEN /\ Fail(NoWorkableSlotError(order.docId))
               /\ UNCHANGED <<workCenterAvailability, workOrderEndTimes, results, warnings>>
          ELSE /\ workCenterAvailability' = r.availability
               /\ workOrderEndTimes' = r.endTimes
               /\ results' = results \o r.result
               /\ warnings' = warnings \o r.warning
               /\ UNCHANGED <<pc, outcome>>
  /\ UNCHANGED <<probe, workCenters, config, workOrders, graph, inDegrees, readyQueue, sortedOrders,
                 calls, previous>>

\* Compile the statistics and return
Return ==
  /\ pc = "scheduling"
  /\ Len(results) = Len(sortedOrders)
  /\ pc' = "done"
  /\ outcome' = Returned(results, warnings, Metadata(workOrders, results))
  /\ UNCHANGED <<probe, workCenters, config, workOrders, graph, inDegrees, readyQueue, sortedOrders,
                 workCenterAvailability, workOrderEndTimes, results, warnings, calls, previous>>

\* The same instance is called again with the same orders
CallAgain ==
  /\ pc \in {"done", "failed"}
  /\ calls < MaxCalls
  /\ calls' = calls + 1
  /\ previous' = outcome
  /\ pc' = "validate"
  /\ graph' = NoGraph
  /\ inDegrees' = EmptyMap
  /\ readyQueue' = <<>>
  /\ sortedOrders' = <<>>
  /\ workCenterAvailability' = NewTracker(workCenterAvailability)
  /\ workOrderEndTimes' = NewTracker(workOrderEndTimes)
  /\ results' = <<>>
  /\ warnings' = <<>>
  /\ outcome' = NoOutcome
  /\ UNCHANGED <<probe, workCenters, config, workOrders>>

(***************************************************************************)
(* The calendar functions called directly                                  *)
(***************************************************************************)
Center(shifts, windows) == [shifts |-> shifts, maintenanceWindows |-> windows]

\* Work centers probed: two maintenance windows listed latest first and
\* earliest first; shifts listed out of order with an overnight shift and an
\* empty one; no shifts; blocked for forty days; blocked until a Wednesday
\* afternoon a month later; windows listed latest first and every later
\* shift blocked; a window that leaves less than one unit at the start of
\* the shift; one hour of work a week
ProbeCenters ==
  {Center(<<Shift(1, 9, 17), Shift(2, 9, 17)>>,
          <<Window(At(1, 12), At(1, 14)), Window(At(1, 10), At(1, 12))>>),
   Center(<<Shift(1, 9, 17), Shift(2, 9, 17)>>,
          <<Window(At(1, 10), At(1, 12)), Window(At(1, 12), At(1, 14))>>),
   Center(<<Shift(2, 9, 12), Shift(1, 22, 2), Shift(2, 14, 14), Shift(1, 9, 12)>>,
          <<Window(At(2, 0), At(2, 1))>>),
   Center(<<>>, <<>>),
   Center(<<Shift(1, 9, 17)>>, <<Window(At(1, 0), At(41, 0))>>),
   Center(<<Shift(3, 9, 17)>>, <<Window(At(0, 0), At(31, 16))>>),
   Center(<<Shift(1, 9, 17)>>,
          <<Window(At(1, 12), At(1, 14)), Window(At(1, 10), At(1, 12)),
            Window(At(1, 17), At(41, 0))>>),
   Center(<<Shift(1, 9, 12)>>, <<Window(At(1, 9) + 1, At(1, 10))>>),
   Center(<<Shift(1, 9, 10)>>, <<>>)}

\* Sunday 00:00 to Tuesday 23:00, hour by hour, and three instants between
\* the hours
ProbeInstants ==
  {At(d, h) : d \in 0..2, h \in 0..23} \cup {At(1, 9) - 1, At(1, 9) + 1, At(1, 11) + 1}

ProbeDurations == {Hours(0), Hours(1), Hours(3), Hours(9), Hours(60)}

CalendarInit ==
  /\ workCenters = WorkCenterIndex
  /\ config = [allowEarlierStart |-> FALSE]
  /\ workOrders = <<>>
  /\ CallStart
  /\ calls = 1
  /\ previous = NoOutcome
  /\ \E wc \in ProbeCenters, from \in ProbeInstants, d \in ProbeDurations :
       probe = [op |-> "none", wc |-> wc, from |-> from, durationMinutes |-> d,
                answer |-> NoTime, cursor |-> from, remaining |-> d, steps |-> 0,
                until |-> from, portion |-> <<from, from>>]

CallFindEarliestValidStart ==
  /\ probe.op = "none"
  /\ probe' = [probe EXCEPT !.op = "findEarliestValidStart",
                            !.answer = findEarliestValidStart(probe.from, probe.wc)]
  /\ UNCHANGED <<workCenters, config, workOrders, pc, graph, inDegrees, readyQueue,
                 sortedOrders, workCenterAvailability, workOrderEndTimes, results, warnings,
                 outcome, calls, previous>>

CallCalculateEndDateWithShifts ==
  /\ probe.op = "none"
  /\ probe' = [probe EXCEPT !.op = "calculateEndDateWithShifts",
                            !.answer = calculateEndDateWithShifts(probe.from,
                                                                  probe.durationMinutes, probe.wc)]
  /\ UNCHANGED <<workCenters, config, workOrders, pc, graph, inDegrees, readyQueue,
                 sortedOrders, workCenterAvailability, workOrderEndTimes, results, warnings,
                 outcome, calls, previous>>

\* Lengths of the slots handed to subtractMaintenanceWindows
ProbeLengths == {Hours(1), Hours(4), Hours(7)}

\* The slot [probe.from, probe.until) against the windows of the work center
CallSubtractMaintenanceWindows ==
  /\ probe.op = "none"
  /\ \E len \in ProbeLengths :
       probe' = [probe EXCEPT !.op = "subtractMaintenanceWindows",
                              !.until = probe.from + len,
                              !.portion = subtractMaintenanceWindows(
                                            probe.from, probe.from + len,
                                            probe.wc.maintenanceWindows)]
  /\ UNCHANGED <<workCenters, config, workOrders, pc, graph, inDegrees, readyQueue,
                 sortedOrders, workCenterAvailability, workOrderEndTimes, results, warnings,
                 outcome, calls, previous>>

\* calculateEndDateWithShifts, iteration by iteration: probe.cursor and
\* probe.remaining are its two locals, probe.steps counts the iterations
WalkEnds(p, answer) == [p EXCEPT !.op = "walked", !.answer = answer]

\* Variant: a slot that contributes no minutes leaves the cursor at its start
Advance_StaysOnEmptySlot(p, slot) ==
  [p EXCEPT !.cursor = IF SlotMinutes(slot) = 0 THEN slot[1] ELSE slot[2],
            !.remaining = p.remaining - SlotMinutes(slot)]

\* remaining <- remaining - slot.minutes, cursor <- slot.end
Advance(p, slot) ==
  [p EXCEPT !.cursor = slot[2], !.remaining = p.remaining - SlotMinutes(slot)]

WalkStart ==
  /\ probe.op = "none"
  /\ probe' = IF probe.durationMinutes = 0 THEN WalkEnds(probe, probe.from)
              ELSE [probe EXCEPT !.op = "walking", !.cursor = probe.from,
                                 !.remaining = probe.durationMinutes]
  /\ UNCHANGED <<workCenters, config, workOrders, pc, graph, inDegrees, readyQueue,
                 sortedOrders, workCenterAvailability, workOrderEndTimes, results, warnings,
                 outcome, calls, previous>>

\* One iteration met the slot it asked for
WalkOn(p, slot) ==
  IF slot[1] = NoTime THEN WalkEnds(p, NoTime)
  ELSE IF SlotMinutes(slot) >= p.remaining THEN WalkEnds(p, slot[1] + p.remaining)
  ELSE Advance(p, slot)

Iteration(p) ==
  IF p.cursor > p.from + WalkDays * Day THEN WalkEnds(p, NoTime)
  ELSE WalkOn(p, findNextWorkableSlot(p.cursor, p.wc))

WalkStep ==
  /\ probe.op = "walking"
  /\ probe' = Iteration([probe EXCEPT !.steps = probe.steps + 1])
  /\ UNCHANGED <<workCenters, config, workOrders, pc, graph, inDegrees, readyQueue,
                 sortedOrders, workCenterAvailability, workOrderEndTimes, results, warnings,
                 outcome, calls, previous>>

CalendarNext ==
  \/ CallFindEarliestValidStart
  \/ CallCalculateEndDateWithShifts
  \/ WalkStart
  \/ WalkStep
  \/ CallSubtractMaintenanceWindows

CalendarSpec == CalendarInit /\ [][CalendarNext]_vars

\* The walker's loop is not suspended for ever: weak fairness of WalkStep,
\* which is enabled exactly while a walk is under way
CalendarFairSpec ==
  CalendarSpec /\ ([]<>(probe.op # "walking") \/ []<><<WalkStep>>_vars)

(***************************************************************************)
(* validateDependencies called directly                                    *)
(***************************************************************************)
\* Three orders whose dependency lists mix the kinds of problem: entries on
\* the order itself, on the unknown order 9, repeated entries, and cycles
\* through two or three orders
DependencyInputs ==
  {Permute(<<WorkOrder(1, 1, At(1, 10), Hours(1), 0, FALSE, p1),
             WorkOrder(2, 1, At(1, 10), Hours(1), 0, FALSE, p2),
             WorkOrder(3, 1, At(1, 9), Hours(1), 0, FALSE, p3)>>, perm) :
     p1 \in {<<>>, <<1>>, <<2>>, <<9>>, <<1, 9>>, <<9, 2>>, <<2, 2>>},
     p2 \in {<<>>, <<1>>, <<3>>, <<2>>, <<3, 9>>},
     p3 \in {<<>>, <<1>>, <<2>>, <<9>>, <<3, 2>>},
     perm \in {<<1, 2, 3>>, <<3, 2, 1>>}}

NoValidation == [op |-> "none", answer |-> ValidationResult(<<>>)]

DependencyInit ==
  /\ workCenters = WorkCenterIndex
  /\ config = [allowEarlierStart |-> FALSE]
  /\ workOrders \in DependencyInputs
  /\ CallStart
  /\ calls = 1
  /\ previous = NoOutcome
  /\ probe = NoValidation

CallValidateDependencies ==
  /\ probe.op = "none"
  /\ probe' = [op |-> "validateDependencies", answer |-> validateDependencies(workOrders)]
  /\ UNCHANGED <<workCenters, config, workOrders, pc, graph, inDegrees, readyQueue,
                 sortedOrders, workCenterAvailability, workOrderEndTimes, results, warnings,
                 outcome, calls, previous>>

\* Ids asked about: the three orders and an id no order has
ProbeIds == {1, 2, 3, 9}

\* A search over the graph of the orders, iteration by iteration:
\* probe.search holds the queue and the result, probe.ended tells that the
\* loop was left
SearchCall(op, id) ==
  [op |-> op, workOrderId |-> id, search |-> BfsStart(id), steps |-> 0, ended |-> FALSE,
   answer |-> ValidationResult(<<>>)]

CallGetTransitive(op) ==
  /\ probe.op = "none"
  /\ buildDependencyGraph(workOrders).error = NoError
  /\ graph' = buildDependencyGraph(workOrders)
  /\ \E id \in ProbeIds : probe' = SearchCall(op, id)
  /\ UNCHANGED <<workCenters, config, workOrders, pc, inDegrees, readyQueue,
                 sortedOrders, workCenterAvailability, workOrderEndTimes, results, warnings,
                 outcome, calls, previous>>

CallGetTransitiveDependents == CallGetTransitive("getTransitiveDependents")

CallGetTransitiveDependencies == CallGetTransitive("getTransitiveDependencies")

SearchDirection(op) == IF op = "getTransitiveDependents" THEN "dependents" ELSE "dependencies"

SearchStep ==
  /\ probe.op \in {"getTransitiveDependents", "getTransitiveDependencies"}
  /\ ~probe.ended
  /\ probe' = IF probe.search.queue = <<>> THEN [probe EXCEPT !.ended = TRUE]
              ELSE [probe EXCEPT !.steps = probe.steps + 1,
                                 !.search = BfsIteration(probe.search, graph.nodes,
                                                         SearchDirection(probe.op))]
  /\ UNCHANGED <<workCenters, config, workOrders, pc, graph, inDegrees, readyQueue,
                 sortedOrders, workCenterAvailability, workOrderEndTimes, results, warnings,
                 outcome, calls, previous>>

DependencyNext ==
  \/ CallValidateDependencies
  \/ CallGetTransitiveDependents
  \/ CallGetTransitiveDependencies
  \/ SearchStep

DependencySpec == DependencyInit /\ [][DependencyNext]_vars

\* The loop of a search is not suspended for ever: weak fairness of
\* SearchStep, which is enabled exactly while a search has not ended
DependencyFairSpec ==
  DependencySpec
    /\ ([]<>(probe.op \notin {"getTransitiveDependents", "getTransitiveDependencies"}
             \/ probe.ended)
        \/ []<><<SearchStep>>_vars)

(***************************************************************************)
(* Several calls, on any lists, on one instance                            *)
(***************************************************************************)
\* Three orders listed in id order or reversed: the first two start together
\* on work center 1, the third is on work center 1, 2 or 3 (no shifts);
\* dependencies may chain or form a cycle
SessionInputs ==
  {Permute(<<WorkOrder(1, 1, At(1, 10), Hours(3), 0, m1, <<>>),
             WorkOrder(2, 1, At(1, 10), Hours(1), 0, FALSE, p2),
             WorkOrder(3, w3, At(1, 12), Hours(3), Hours(1), FALSE, p3)>>, perm) :
     m1 \in BOOLEAN, p2 \in {<<>>, <<1>>, <<3>>}, p3 \in {<<>>, <<2>>}, w3 \in {1, 2, 3},
     perm \in {<<1, 2, 3>>, <<3, 2, 1>>}}

\* Lists a later call may be given, besides the earlier list reversed
OtherLists ==
  {<<WorkOrder(2, 1, At(1, 16), Hours(3), 0, FALSE, <<>>),
     WorkOrder(1, 3, At(1, 10), Hours(1), 0, FALSE, <<2>>)>>,
   <<WorkOrder(3, 2, At(1, 10), Hours(1), 0, FALSE, <<>>),
     WorkOrder(1, 1, At(1, 10), Hours(1), 0, TRUE, <<>>)>>}

Reversed(orders) == [i \in 1..Len(orders) |-> orders[Len(orders) + 1 - i]]

\* The entry call: reflow(workOrders), or rescheduleOrder(workOrderId,
\* newStartDate, allOrders)
ReflowCall(orders) ==
  [op |-> "reflow", workOrderId |-> 0, newStartDate |-> toISO(0), allOrders |-> orders]

RescheduleCall(id, text, orders) ==
  [op |-> "rescheduleOrder", workOrderId |-> id, newStartDate |-> text, allOrders |-> orders]

\* (variant: the end date of the target moves along with its start)
UpdatedOrder_MovesEnd(order, workOrderId, newStartDate) ==
  IF order.docId = workOrderId
  THEN [order EXCEPT !.startDateText = newStartDate, !.startDate = fromISO(newStartDate),
                     !.endDate = order.endDate + (fromISO(newStartDate) - order.startDate)]
  ELSE order

\* rescheduleOrder: the list with the start date of the target replaced
UpdatedOrder(order, workOrderId, newStartDate) ==
  IF order.docId = workOrderId
  THEN [order EXCEPT !.startDateText = newStartDate, !.startDate = fromISO(newStartDate)]
  ELSE order

UpdatedOrders(workOrderId, newStartDate, allOrders) ==
  [i \in 1..Len(allOrders) |-> UpdatedOrder(allOrders[i], workOrderId, newStartDate)]

\* allOrders.map with object spread builds a new list of new objects: the
\* list the caller passed is as it was when rescheduleOrder returns
CallersList(allOrders, updatedOrders) == allOrders

\* Arguments of rescheduleOrder: a known or unknown id, a later start
RescheduleIds == {1, 3, 9}

RescheduleStarts == {toISO(At(1, 16)), IsoText(At(2, 11), ".000+02:00")}

SessionInit ==
  /\ workCenters = WorkCenterIndex
  /\ config \in {[allowEarlierStart |-> b] : b \in BOOLEAN}
  /\ workOrders \in SessionInputs
  /\ CallStart
  /\ calls = 1
  /\ previous = NoOutcome
  /\ probe = ReflowCall(workOrders)

\* Entering a call on the same instance: step 2 of reflow starts from new maps
EnterCall(orders) ==
  /\ pc \in {"done", "failed"}
  /\ calls < MaxCalls
  /\ calls' = calls + 1
  /\ previous' = outcome
  /\ workOrders' = orders
  /\ pc' = "validate"
  /\ graph' = NoGraph
  /\ inDegrees' = EmptyMap
  /\ readyQueue' = <<>>
  /\ sortedOrders' = <<>>
  /\ workCenterAvailability' = NewTracker(workCenterAvailability)
  /\ workOrderEndTimes' = NewTracker(workOrderEndTimes)
  /\ results' = <<>>
  /\ warnings' = <<>>
  /\ outcome' = NoOutcome
  /\ UNCHANGED <<workCenters, config>>

CallReflow ==
  \E orders \in {Reversed(workOrders)} \cup OtherLists :
    /\ EnterCall(orders)
    /\ probe' = ReflowCall(orders)

CallRescheduleOrder ==
  \E id \in RescheduleIds, text \in RescheduleStarts :
    /\ EnterCall(UpdatedOrders(id, text, workOrders))
    /\ probe' = RescheduleCall(id, text,
                               CallersList(workOrders, UpdatedOrders(id, text, workOrders)))

SessionNext ==
  \/ ValidateWorkCenters
  \/ BuildGraph
  \/ SortInit
  \/ SortStep
  \/ SortEnd
  \/ ScheduleStep
  \/ Return
  \/ CallReflow
  \/ CallRescheduleOrder

SessionSpec == SessionInit /\ [][SessionNext]_vars

Next ==
  \/ ValidateWorkCenters
  \/ BuildGraph
  \/ SortInit
  \/ SortStep
  \/ SortEnd
  \/ ScheduleStep
  \/ Return
  \/ CallAgain

Spec == Init /\ [][Next]_vars

TypeOK ==
  /\ pc \in {"validate", "build", "sortInit", "sorting", "scheduling", "done", "failed"}
  /\ calls \in 1..MaxCalls

(***************************************************************************)
(* Properties                                                              *)
(***************************************************************************)
Succeeded == pc = "done"

OrderOf(r) == OrderById(workOrders, r.workOrderId)

ResultPairs == {p \in (1..Len(results)) \X (1..Len(results)) : p[1] # p[2]}

SameCenter(i, j) == OrderOf(results[i]).workCenterId = OrderOf(results[j]).workCenterId

\* C1: after a successful reflow, two distinct non-maintenance orders on the
\* same work center do not overlap: one ends no later than the other starts.
C1_MovableOrdersDoNotOverlap ==
  Succeeded =>
    \A p \in ResultPairs :
      (/\ SameCenter(p[1], p[2])
       /\ ~OrderOf(results[p[1]]).isMaintenance
       /\ ~OrderOf(results[p[2]]).isMaintenance)
      => \/ results[p[1]].newEndDate <= results[p[2]].newStartDate
         \/ results[p[2]].newEndDate <= results[p[1]].newStartDate

\* Two movable orders on one work center asked for the same start, and the
\* later one was pushed to the end of the earlier one.
C1_Witness ==
  /\ Succeeded
  /\ \E p \in ResultPairs :
       /\ SameCenter(p[1], p[2])
       /\ ~OrderOf(results[p[1]]).isMaintenance
       /\ ~OrderOf(results[p[2]]).isMaintenance
       /\ results[p[1]].originalStartDate = results[p[2]].originalStartDate
       /\ results[p[1]].newEndDate > results[p[1]].newStartDate
       /\ results[p[2]].newStartDate >= results[p[1]].newEndDate
       /\ results[p[2]].newStartDate > results[p[2]].originalStartDate

HalfOpenDisjoint(s1, e1, s2, e2) ==
  \A t \in s1..(e1 - 1) : ~(s2 <= t /\ t < e2)

\* C2: after a successful reflow, the half-open intervals of any two distinct
\* orders on the same work center, maintenance orders included, are disjoint.
C2_NoOverlapWithMaintenance ==
  Succeeded =>
    \A p \in ResultPairs :
      SameCenter(p[1], p[2])
      => HalfOpenDisjoint(results[p[1]].newStartDate, results[p[1]].newEndDate,
                          results[p[2]].newStartDate, results[p[2]].newEndDate)

DeclaresDependency(x, d) == d \in Range(OrderOf(x).dependsOnWorkOrderIds)

\* C3: after a successful reflow, every order, maintenance or not, starts no
\* earlier than the end of each dependency it declares.
C3_DependenciesRespected ==
  Succeeded =>
    \A p \in ResultPairs :
      DeclaresDependency(results[p[1]], results[p[2]].workOrderId)
      => results[p[1]].newStartDate >= results[p[2]].newEndDate

\* Restriction of C3 to movable orders
MovableDependenciesRespected ==
  Succeeded =>
    \A p \in ResultPairs :
      (DeclaresDependency(results[p[1]], results[p[2]].workOrderId)
       /\ ~OrderOf(results[p[1]]).isMaintenance)
      => results[p[1]].newStartDate >= results[p[2]].newEndDate

\* C4: every maintenance order keeps its original start and end, is reported
\* fixed and not rescheduled; every other order is reported not fixed.
C4_MaintenanceIsFixedPoint ==
  \A i \in 1..Len(results) :
    LET r == results[i] o == OrderOf(results[i]) IN
    IF o.isMaintenance
    THEN /\ r.newStartDate = o.startDate
         /\ r.newEndDate = o.endDate
         /\ r.isFixed
         /\ ~r.wasRescheduled
    ELSE ~r.isFixed

\* A maintenance order processed after an order of its work center that ends
\* later than the maintenance order starts, and declaring a dependency.
C4_Witness ==
  /\ Succeeded
  /\ \E p \in ResultPairs :
       /\ p[1] < p[2]
       /\ SameCenter(p[1], p[2])
       /\ OrderOf(results[p[2]]).isMaintenance
       /\ OrderOf(results[p[2]]).dependsOnWorkOrderIds # <<>>
       /\ results[p[1]].newEndDate > results[p[2]].originalStartDate
       /\ ~isWithinWorkingHours(results[p[2]].newStartDate, workCenters[OrderOf(results[p[2]]).workCenterId])

ListedChronologically(windows) ==
  \A k \in 1..Len(windows) : \A l \in 1..Len(windows) :
    k < l => windows[k].startDate <= windows[l].startDate

WorkingTicks(s, e, wc) == Cardinality({t \in s..(e - 1) : isWithinWorkingHours(t, wc)})

\* C5: for every non-maintenance order of a successful reflow, the working
\* time inside [newStart, newEnd) is exactly durationMinutes.
C5_WorkingTimeEqualsDuration ==
  Succeeded =>
    \A i \in 1..Len(results) :
      LET r == results[i] o == OrderOf(results[i]) IN
      ~o.isMaintenance
      => WorkingTicks(r.newStartDate, r.newEndDate, workCenters[o.workCenterId]) = o.durationMinutes

\* C5 for orders on work centers whose maintenance windows are listed
\* earliest first
WorkingTimeEqualsDurationForChronologicalWindows ==
  Succeeded =>
    \A i \in 1..Len(results) :
      LET r == results[i] o == OrderOf(results[i]) IN
      (~o.isMaintenance /\ ListedChronologically(workCenters[o.workCenterId].maintenanceWindows))
      => WorkingTicks(r.newStartDate, r.newEndDate, workCenters[o.workCenterId]) = o.durationMinutes

\* A movable order whose interval is longer than its duration: it spans a
\* maintenance window or a shift boundary.
WorkingTimeEqualsDurationForChronologicalWindows_Witness ==
  /\ Succeeded
  /\ \E i \in 1..Len(results) : \E j \in 1..Len(results) :
       /\ ~OrderOf(results[i]).isMaintenance
       /\ ~OrderOf(results[j]).isMaintenance
       /\ results[i].newEndDate - results[i].newStartDate > OrderOf(results[i]).durationMinutes
       /\ InMaintenance(results[i].newStartDate + Hours(1), workCenters[OrderOf(results[i]).workCenterId])
       /\ DayOf(results[j].newEndDate) > DayOf(results[j].newStartDate)

\* C6: in the results of a successful reflow every dependency comes before
\* the order that declares it.
C6_TopologicalDelivery ==
  Succeeded =>
    \A p \in ResultPairs :
      DeclaresDependency(results[p[2]], results[p[1]].workOrderId) => p[1] < p[2]

\* The input lists a dependent before its dependency, and the dependent has
\* the earlier start date.
C6_Witness ==
  /\ Succeeded
  /\ \E i \in 1..Len(workOrders) : \E j \in 1..Len(workOrders) :
       /\ i < j
       /\ workOrders[j].docId \in Range(workOrders[i].dependsOnWorkOrderIds)
       /\ workOrders[i].startDate < workOrders[j].startDate
       /\ Len(workOrders[i].dependsOnWorkOrderIds) = 2

\* C7: two reflow calls with identical inputs return identical results and
\* warnings (and fail alike).
C7_Determinism ==
  (outcome.returned /\ previous.returned) => outcome = previous

\* Direct and transitive prerequisites of an order, from the input lists
RECURSIVE Prerequisites(_, _)
Prerequisites(ids, orders) ==
  LET direct == UNION {Range(OrderById(orders, id).dependsOnWorkOrderIds) : id \in ids}
                  \cap Range(DocIds(orders))
  IN IF direct \subseteq ids THEN ids ELSE Prerequisites(ids \cup direct, orders)

OnCycle(id, orders) ==
  id \in Prerequisites(Range(OrderById(orders, id).dependsOnWorkOrderIds)
                         \cap Range(DocIds(orders)), orders)

HasCycle(orders) == \E id \in Range(DocIds(orders)) : OnCycle(id, orders)

SortFinished ==
  \/ pc \in {"scheduling", "done"}
  \/ pc = "failed" /\ outcome.error.name \in {"CircularDependencyError", "NoWorkableSlot"}

\* C8: topologicalSort fails with CircularDependency exactly when the
\* dependency graph has a directed cycle, and otherwise returns all orders.
C8_CircularIffCycle ==
  SortFinished =>
    /\ (Len(sortedOrders) # Len(workOrders)) <=> HasCycle(workOrders)
    /\ ~HasCycle(workOrders) => Range(sortedOrders) = Range(DocIds(workOrders))

CycleThrown == pc = "failed" /\ outcome.error.name = "CircularDependencyError"

GenuineCycle(cycle, orders) ==
  /\ Len(cycle) >= 2
  /\ cycle[1] = cycle[Len(cycle)]
  /\ \A k \in 1..Len(cycle) : cycle[k] \in Range(DocIds(orders)) \ Range(sortedOrders)
  /\ \A k \in 1..(Len(cycle) - 1) :
       cycle[k + 1] \in Range(OrderById(orders, cycle[k]).dependsOnWorkOrderIds)

NoRepeatedDependency(orders) ==
  \A i \in 1..Len(orders) :
    Len(Dedup(orders[i].dependsOnWorkOrderIds)) = Len(orders[i].dependsOnWorkOrderIds)

\* C8 and C9 for inputs whose dependency lists have no repeated entry
CircularIffCycleWithoutRepeats ==
  (SortFinished /\ NoRepeatedDependency(workOrders)) =>
    /\ (Len(sortedOrders) # Len(workOrders)) <=> HasCycle(workOrders)
    /\ ~HasCycle(workOrders) => Range(sortedOrders) = Range(DocIds(workOrders))

CycleWitnessGenuineWithoutRepeats ==
  (CycleThrown /\ NoRepeatedDependency(workOrders))
  => GenuineCycle(outcome.error.cycle, workOrders)

\* C9: when the sort fails on a graph that has a cycle, the carried list is a
\* genuine cycle of unprocessed orders, closed on its first id.
C9_CycleWitnessGenuine ==
  (CycleThrown /\ HasCycle(workOrders)) => GenuineCycle(outcome.error.cycle, workOrders)

UnknownDependencies(orders) ==
  {p \in Range(DocIds(orders)) \X UNION {Range(orders[i].dependsOnWorkOrderIds) : i \in 1..Len(orders)} :
     /\ p[2] \in Range(OrderById(orders, p[1]).dependsOnWorkOrderIds)
     /\ p[2] \notin Range(DocIds(orders))}

BuildFinished ==
  \/ pc \in {"sortInit", "sorting", "scheduling", "done"}
  \/ pc = "failed" /\ outcome.error.name # "MissingWorkCenterError"

\* C10: once the work centers are validated, the call fails with
\* MissingDependency exactly when some order declares an unknown dependency;
\* the error names such an order and dependency, and nothing was sorted or
\* scheduled.
C10_MissingDependency ==
  BuildFinished =>
    /\ (outcome.error.name = "MissingDependencyError") <=> (UnknownDependencies(workOrders) # {})
    /\ outcome.error.name = "MissingDependencyError"
       => /\ <<outcome.error.workOrderId, outcome.error.otherId>> \in UnknownDependencies(workOrders)
          /\ inDegrees = EmptyMap /\ sortedOrders = <<>> /\ results = <<>>

\* The unknown id is the second entry of a list whose first entry is known.
C10_Witness ==
  /\ pc = "failed"
  /\ outcome.error.name = "MissingDependencyError"
  /\ \E i \in 1..Len(workOrders) :
       /\ workOrders[i].docId = outcome.error.workOrderId
       /\ Len(workOrders[i].dependsOnWorkOrderIds) = 2
       /\ workOrders[i].dependsOnWorkOrderIds[2] = outcome.error.otherId
       /\ workOrders[i].dependsOnWorkOrderIds[1] \in Range(DocIds(workOrders))

UnknownCenterOrders(orders, centers) ==
  {i \in 1..Len(orders) : orders[i].workCenterId \notin DOMAIN centers}

\* C11: the call fails with MissingWorkCenter exactly when some input order,
\* maintenance or not, names a work center that is not in the index; the
\* error carries the first such order of the input list and its work center.
C11_MissingWorkCenter ==
  pc # "validate" =>
    /\ (outcome.error.name = "MissingWorkCenterError")
         <=> (UnknownCenterOrders(workOrders, workCenters) # {})
    /\ outcome.error.name = "MissingWorkCenterError"
       => LET first == workOrders[SetMin(UnknownCenterOrders(workOrders, workCenters))]
          IN /\ outcome.error.workOrderId = first.docId
             /\ outcome.error.otherId = first.workCenterId
             /\ graph = NoGraph /\ results = <<>>

\* Two orders name unknown work centers, the second is a maintenance order,
\* and the first also declares an unknown dependency.
C11_Witness ==
  /\ pc = "failed"
  /\ outcome.error.name = "MissingWorkCenterError"
  /\ Cardinality(UnknownCenterOrders(workOrders, workCenters)) = 2
  /\ workOrders[2].isMaintenance
  /\ 9 \in Range(workOrders[1].dependsOnWorkOrderIds)
  /\ outcome.error.workOrderId = workOrders[1].docId

ResultIds(rs) == [i \in 1..Len(rs) |-> rs[i].workOrderId]

UniqueIds(orders) == Cardinality(Range(DocIds(orders))) = Len(orders)

\* C12: a successful call on orders with unique ids returns exactly one
\* result per input order (the result ids are a permutation of the input
\* ids) and as many results as metadata.totalOrders; the empty list succeeds
\* with no results.
C12_OneResultPerOrder ==
  /\ (Succeeded /\ UniqueIds(workOrders)) =>
       /\ outcome.results = results
       /\ Len(outcome.results) = Len(workOrders)
       /\ Range(ResultIds(outcome.results)) = Range(DocIds(workOrders))
       /\ Len(outcome.results) = outcome.metadata.totalOrders
  /\ (workOrders = <<>> /\ pc \in {"done", "failed"}) =>
       /\ pc = "done"
       /\ outcome.error = NoError
       /\ outcome.results = <<>>

\* Three orders are returned in an order that is not the input order.
C12_Witness ==
  /\ Succeeded
  /\ Len(outcome.results) = 3
  /\ ResultIds(outcome.results) # DocIds(workOrders)
  /\ \E i \in 1..3 : OrderOf(outcome.results[i]).isMaintenance
  /\ \E i \in 1..3 : ~OrderOf(outcome.results[i]).isMaintenance

\* The empty list was scheduled.
EmptyInputSucceeded == workOrders = <<>> /\ Succeeded

\* Orders not yet emitted whose dependencies have all been emitted
ReadyPool(emitted, orders) ==
  {i \in 1..Len(orders) :
     /\ orders[i].docId \notin emitted
     /\ Range(orders[i].dependsOnWorkOrderIds) \subseteq emitted}

\* The pool's order with the smallest (original start instant, id)
EarliestOf(pool, orders) ==
  CHOOSE i \in pool : \A j \in pool :
    \/ orders[i].startDate < orders[j].startDate
    \/ orders[i].startDate = orders[j].startDate /\ orders[i].docId <= orders[j].docId

EmittedBefore(k, rs) == {rs[j].workOrderId : j \in 1..(k - 1)}

\* C13: the results of a successful call are in the order of Kahn's
\* algorithm with the ready pool keyed by (original start instant, id): each
\* result is the earliest ready order among those not yet emitted.
C13_KahnOrderByStartThenId ==
  Succeeded =>
    \A k \in 1..Len(results) :
      LET pool == ReadyPool(EmittedBefore(k, results), workOrders)
      IN pool # {} /\ results[k].workOrderId = workOrders[EarliestOf(pool, workOrders)].docId

DatesInOneFormat(orders) == \A i \in 1..Len(orders) : orders[i].startDateText.suffix = ".000Z"

\* C13 for inputs whose start date strings are all written in one format
KahnOrderForOneFormat ==
  (Succeeded /\ DatesInOneFormat(workOrders)) =>
    \A k \in 1..Len(results) :
      LET pool == ReadyPool(EmittedBefore(k, results), workOrders)
      IN pool # {} /\ results[k].workOrderId = workOrders[EarliestOf(pool, workOrders)].docId

\* Three orders with dates in one format, two of them with the same start,
\* returned in an order that is neither the input order nor the order of ids.
KahnOrderForOneFormat_Witness ==
  /\ Succeeded
  /\ DatesInOneFormat(workOrders)
  /\ ResultIds(results) = <<3, 1, 2>>
  /\ DocIds(workOrders) = <<3, 2, 1>>

\* Two orders with the same start instant, both written in UTC, the one with
\* the smaller id without milliseconds, are returned in the order of the
\* strings.
KahnOrderBrokenForUtcDates ==
  /\ Succeeded
  /\ \A i \in 1..Len(workOrders) : UtcOffset(workOrders[i].startDateText.suffix) = 0
  /\ ~C13_KahnOrderByStartThenId

\* C14: on success totalOrders is the number of input orders,
\* rescheduledCount the number of results with wasRescheduled, fixedCount
\* the number of results with isFixed, which is the number of maintenance
\* orders of the input; the two counts together do not exceed totalOrders.
C14_MetadataCounts ==
  Succeeded =>
    LET md == outcome.metadata rs == outcome.results IN
    /\ md.totalOrders = Len(workOrders)
    /\ md.rescheduledCount = Cardinality({i \in 1..Len(rs) : rs[i].wasRescheduled})
    /\ md.fixedCount = Cardinality({i \in 1..Len(rs) : rs[i].isFixed})
    /\ md.fixedCount = Cardinality({i \in 1..Len(workOrders) : workOrders[i].isMaintenance})
    /\ md.rescheduledCount + md.fixedCount <= md.totalOrders

\* One order is fixed, one is rescheduled and one keeps its dates.
C14_Witness ==
  /\ Succeeded
  /\ outcome.metadata = [totalOrders |-> 3, rescheduledCount |-> 1, fixedCount |-> 1]

\* C15: every result of a successful call has wasRescheduled true exactly
\* when its new start differs from its original start or its new end from
\* its original end, as instants.
C15_WasRescheduledIffMoved ==
  Succeeded =>
    \A i \in 1..Len(outcome.results) :
      LET r == outcome.results[i] IN
      r.wasRescheduled
        <=> (r.newStartDate # r.originalStartDate \/ r.newEndDate # r.originalEndDate)

\* One movable order keeps both dates, another keeps its start but ends
\* later than its declared end.
C15_Witness ==
  /\ Succeeded
  /\ \E i \in 1..Len(outcome.results) : \E j \in 1..Len(outcome.results) :
       /\ ~outcome.results[i].isFixed
       /\ ~outcome.results[i].wasRescheduled
       /\ ~outcome.results[j].isFixed
       /\ outcome.results[j].wasRescheduled
       /\ outcome.results[j].newStartDate = outcome.results[j].originalStartDate

StartsLate(r) == ~r.isFixed /\ r.newStartDate > r.originalStartDate

DelayOf(r) == [workOrderId |-> r.workOrderId, delayMinutes |-> r.newStartDate - r.originalStartDate]

ExpectedWarnings(rs) ==
  [k \in 1..Len(SelectSeq(rs, StartsLate)) |-> DelayOf(SelectSeq(rs, StartsLate)[k])]

\* C16: the warnings of a successful call are, in processing order, one
\* entry for each non-maintenance order that starts later than its original
\* start, carrying newStart - originalStart, and nothing else.
C16_WarningsForDelayedOrders ==
  Succeeded => outcome.warnings = ExpectedWarnings(outcome.results)

\* One order starts earlier than planned, one is a maintenance order, one is
\* delayed: a single warning, for the last of the three results.
C16_Witness ==
  /\ Succeeded
  /\ Len(outcome.results) = 3
  /\ Len(outcome.warnings) = 1
  /\ outcome.warnings[1].workOrderId = outcome.results[3].workOrderId
  /\ outcome.warnings[1].delayMinutes > 0
  /\ \E i \in 1..2 : outcome.results[i].newStartDate < outcome.results[i].originalStartDate
  /\ \E i \in 1..2 : outcome.results[i].isFixed

\* C17: with allowEarlierStart false, no non-maintenance order of a
\* successful call starts before its original start.
C17_NeverAdvanced ==
  (Succeeded /\ ~config.allowEarlierStart) =>
    \A i \in 1..Len(results) :
      ~results[i].isFixed => results[i].newStartDate >= results[i].originalStartDate

\* A movable order starts exactly at its original start although its work
\* center was free, and its dependency finished, before that.
C17_Witness ==
  /\ Succeeded
  /\ ~config.allowEarlierStart
  /\ \E p \in ResultPairs :
       /\ p[1] < p[2]
       /\ SameCenter(p[1], p[2])
       /\ DeclaresDependency(results[p[2]], results[p[1]].workOrderId)
       /\ ~results[p[2]].isFixed
       /\ results[p[1]].newEndDate < results[p[2]].originalStartDate
       /\ workCenterAvailability[OrderOf(results[p[2]]).workCenterId] = results[p[2]].newEndDate
       /\ results[p[2]].newStartDate = results[p[2]].originalStartDate

Probed(op) == probe.op = op

\* C18: findEarliestValidStart(from, wc) answers the smallest instant at or
\* after from that is inside a shift and outside every maintenance window,
\* however the shifts and windows are listed; a valid from is the answer.
C18_EarliestValidStart ==
  (Probed("findEarliestValidStart") /\ probe.answer # NoTime) =>
    /\ probe.answer >= probe.from
    /\ isWithinWorkingHours(probe.answer, probe.wc)
    /\ \A t \in probe.from..(probe.answer - 1) : ~isWithinWorkingHours(t, probe.wc)

\* C18 for work centers whose maintenance windows are listed earliest first
EarliestValidStartForChronologicalWindows ==
  (/\ Probed("findEarliestValidStart")
   /\ probe.answer # NoTime
   /\ ListedChronologically(probe.wc.maintenanceWindows)) =>
    /\ probe.answer >= probe.from
    /\ isWithinWorkingHours(probe.answer, probe.wc)
    /\ \A t \in probe.from..(probe.answer - 1) : ~isWithinWorkingHours(t, probe.wc)

\* The answer lies after from, inside an overnight shift of the day before,
\* right after a maintenance window.
EarliestValidStartForChronologicalWindows_Witness ==
  /\ Probed("findEarliestValidStart")
  /\ ListedChronologically(probe.wc.maintenanceWindows)
  /\ InMaintenance(probe.from, probe.wc)
  /\ probe.answer > probe.from
  /\ DayOf(probe.answer) = 2
  /\ probe.answer < At(2, 9)

ZeroDuration(r) == ~r.isFixed /\ OrderOf(r).durationMinutes = 0

\* C19: a non-maintenance order of zero duration ends at the instant it
\* starts, that instant is a working instant of its work center, and right
\* after the order is placed the availability of its work center is that
\* instant.
C19_ZeroDuration ==
  (pc \in {"scheduling", "done"}) =>
    /\ \A i \in 1..Len(results) :
         ZeroDuration(results[i]) =>
           /\ results[i].newEndDate = results[i].newStartDate
           /\ isWithinWorkingHours(results[i].newStartDate,
                                   workCenters[OrderOf(results[i]).workCenterId])
    /\ (Len(results) > 0 /\ ZeroDuration(results[Len(results)])) =>
         workCenterAvailability[OrderOf(results[Len(results)]).workCenterId]
           = results[Len(results)].newStartDate

\* A zero-duration order is delayed to the end of the order before it, and
\* the next order of the same work center starts at that very instant.
C19_Witness ==
  /\ Succeeded
  /\ \E p \in ResultPairs :
       /\ p[2] = p[1] + 1
       /\ SameCenter(p[1], p[2])
       /\ ZeroDuration(results[p[1]])
       /\ results[p[1]].newStartDate > results[p[1]].originalStartDate
       /\ ~results[p[2]].isFixed
       /\ OrderOf(results[p[2]]).durationMinutes > 0
       /\ results[p[2]].newStartDate = results[p[1]].newEndDate

\* calculateEndDateWithShifts with a zero duration answers its start, be it
\* a working instant or not.
ZeroDurationEndsAtStart ==
  (Probed("calculateEndDateWithShifts") /\ probe.durationMinutes = 0) =>
    probe.answer = probe.from

ZeroDurationEndsAtStart_Witness ==
  /\ Probed("calculateEndDateWithShifts")
  /\ probe.durationMinutes = 0
  /\ ~isWithinWorkingHours(probe.from, probe.wc)
  /\ probe.answer = probe.from

\* A working instant exists within the search horizon after the probed instant
WorkableWithinHorizon ==
  \E t \in probe.from..(probe.from + SearchDays * Day) : isWithinWorkingHours(t, probe.wc)

\* C20: findEarliestValidStart fails with NoWorkableSlot exactly when the
\* work center has no working instant within the 30 days after from.
C20_NoWorkableSlotIffNoneInHorizon ==
  Probed("findEarliestValidStart") => (probe.answer = NoTime <=> ~WorkableWithinHorizon)

\* C20 for work centers whose maintenance windows are listed earliest first
NoWorkableSlotForChronologicalWindows ==
  (Probed("findEarliestValidStart") /\ ListedChronologically(probe.wc.maintenanceWindows)) =>
    (probe.answer = NoTime <=> ~WorkableWithinHorizon)

\* The call fails for a work center that has shifts, every one of them
\* covered by maintenance throughout the horizon.
NoWorkableSlotForChronologicalWindows_Witness ==
  /\ Probed("findEarliestValidStart")
  /\ ListedChronologically(probe.wc.maintenanceWindows)
  /\ Len(probe.wc.shifts) > 0
  /\ probe.answer = NoTime

\* The first working instant after a long maintenance lies within the
\* horizon, four weeks after from, and is the answer.
AnswerLateInHorizon ==
  /\ Probed("findEarliestValidStart")
  /\ ListedChronologically(probe.wc.maintenanceWindows)
  /\ probe.answer # NoTime
  /\ probe.answer > probe.from + 28 * Day

Validated == Probed("validateDependencies")

Reported(name) == {k \in 1..Len(probe.answer.errors) : probe.answer.errors[k].name = name}

SelfDependencies(orders) ==
  {i \in 1..Len(orders) : orders[i].docId \in Range(orders[i].dependsOnWorkOrderIds)}

\* A cycle through at least two orders
OnLongCycle(id, orders) ==
  id \in Prerequisites(
           (Range(OrderById(orders, id).dependsOnWorkOrderIds) \cap Range(DocIds(orders))) \ {id},
           [i \in 1..Len(orders) |->
              [orders[i] EXCEPT !.dependsOnWorkOrderIds =
                 SelectSeq(orders[i].dependsOnWorkOrderIds,
                           LAMBDA d : d # orders[i].docId)]])

HasLongCycle(orders) == \E id \in Range(DocIds(orders)) : OnLongCycle(id, orders)

EverySelfDependencyReported ==
  \A i \in SelfDependencies(workOrders) :
    \E k \in Reported("depends on itself") :
      probe.answer.errors[k].workOrderId = workOrders[i].docId

EveryMissingReferenceReported ==
  \A p \in UnknownDependencies(workOrders) :
    \E k \in Reported("depends on non-existent order") :
      /\ probe.answer.errors[k].workOrderId = p[1]
      /\ probe.answer.errors[k].otherId = p[2]

\* C21: the errors of validateDependencies hold an entry for every
\* self-dependency, for every reference to an order that is not in the list,
\* and for a cycle whenever the orders contain one through two or more
\* orders, also when several kinds of problem are present.
C21_AllProblemsCollected ==
  Validated =>
    /\ EverySelfDependencyReported
    /\ EveryMissingReferenceReported
    /\ HasLongCycle(workOrders) => Reported("CircularDependencyError") # {}

\* C21 without the cycle when another kind of problem is present: every
\* self-dependency and missing reference is reported, a cycle is reported
\* when there is no other problem, and the answer is valid exactly when
\* nothing is reported.
ReferenceProblemsCollected ==
  Validated =>
    /\ EverySelfDependencyReported
    /\ EveryMissingReferenceReported
    /\ (HasLongCycle(workOrders) /\ SelfDependencies(workOrders) = {}
          /\ UnknownDependencies(workOrders) = {})
       => Reported("CircularDependencyError") # {}
    /\ probe.answer.isValid <=> probe.answer.errors = <<>>

\* Two missing references and a self-dependency are reported together.
ReferenceProblemsCollected_Witness ==
  /\ Validated
  /\ Cardinality(Reported("depends on non-existent order")) >= 2
  /\ Reported("depends on itself") # {}

\* A cycle through two orders goes unreported beside a missing reference.
CycleHiddenByMissingReference ==
  /\ Validated
  /\ HasLongCycle(workOrders)
  /\ SelfDependencies(workOrders) = {}
  /\ Reported("CircularDependencyError") = {}

\* The sort of reflow, taken step by step, ends as topologicalSort does.
SortStepsAgreeWithTopologicalSort ==
  /\ (SortFinished /\ pc # "failed") =>
       topologicalSort(graph) = [error |-> NoError, sortedOrders |-> sortedOrders]
  /\ CycleThrown =>
       topologicalSort(graph) = [error |-> outcome.error, sortedOrders |-> sortedOrders]

\* What DateTime.now() may read during the steps of one call
NowReadings(orders) == [1..Len(orders) -> Nows]

\* The outcomes a call of reflow on a fresh instance can have
PossibleOutcomes(orders, centers, cfg) ==
  {reflow(orders, centers, cfg, nows) : nows \in NowReadings(orders)}

\* The stepwise call ends as reflow taken as one call does.
StepsAgreeWithReflow ==
  outcome.returned => outcome \in PossibleOutcomes(workOrders, workCenters, config)

Orderings(n) == {perm \in [1..n -> 1..n] : \A i \in 1..n : \E j \in 1..n : perm[j] = i}

\* The results and warnings reflow can return for a list
PossibleResults(orders, centers, cfg) ==
  {<<o.results, o.warnings>> :
     o \in {x \in PossibleOutcomes(orders, centers, cfg) : x.error = NoError}}

\* C22: the results and warnings of a successful reflow are those reflow
\* returns for every permutation of the same list of orders.
C22_InputOrderIndependent ==
  Succeeded =>
    /\ <<outcome.results, outcome.warnings>> \in PossibleResults(workOrders, workCenters, config)
    /\ \A perm \in Orderings(Len(workOrders)) :
         PossibleResults(Permute(workOrders, perm), workCenters, config)
           = PossibleResults(workOrders, workCenters, config)

\* A second call on the reversed list returns what the first returned: the
\* list starts with order 3, orders 1 and 2 are movable, start together on
\* one work center, and one depends on the other.
C22_Witness ==
  /\ Succeeded
  /\ calls = 2
  /\ Probed("reflow")
  /\ Len(workOrders) = 3
  /\ workOrders[1].docId = 3
  /\ \A i \in 1..3 : ~workOrders[i].isMaintenance
  /\ OrderById(workOrders, 2).dependsOnWorkOrderIds = <<1>>
  /\ previous.error = NoError
  /\ previous.results = outcome.results
  /\ previous.warnings = outcome.warnings
  /\ outcome.results[1].workOrderId = 1

\* C23: every call on an instance, whatever calls came before it, ends as a
\* call on a fresh instance with the same work centers and configuration can
\* end for the same list; no step changes the work-center index or the
\* configuration.
C23_NoStateBetweenCalls ==
  /\ [](outcome.returned => outcome \in PossibleOutcomes(workOrders, WorkCenterIndex, config))
  /\ [][workCenters' = workCenters /\ config' = config]_vars

\* A call succeeds on a list of two orders after a call on another list
\* failed with NoWorkableSlot, some of its orders already scheduled on a work
\* center the second call uses.
C23_Witness ==
  /\ Succeeded
  /\ calls = 2
  /\ previous.error.name = "NoWorkableSlot"
  /\ Len(outcome.results) = 2
  /\ \E i \in 1..2 : workOrders[i].workCenterId = 1

Rescheduled == Probed("rescheduleOrder")

\* The orders a move of an order can reach: the order itself, the orders
\* that depend on a reached order and the orders that share a work center
\* with one
RECURSIVE ReachedFrom(_, _)
ReachedFrom(ids, orders) ==
  LET next == {orders[i].docId : i \in
                 {i \in 1..Len(orders) :
                    \/ Range(orders[i].dependsOnWorkOrderIds) \cap ids # {}
                    \/ \E j \in 1..Len(orders) :
                         /\ orders[j].docId \in ids
                         /\ orders[j].workCenterId = orders[i].workCenterId}}
  IN IF next \subseteq ids THEN ids ELSE ReachedFrom(ids \cup next, orders)

AffectedOrders == ReachedFrom({probe.workOrderId}, probe.allOrders)

\* C24: a successful rescheduleOrder returns results only for the moved
\* order and the orders its move can reach, not for every order of allOrders.
C24_AffectedOrdersOnly ==
  (Succeeded /\ Rescheduled) =>
    \A i \in 1..Len(results) : results[i].workOrderId \in AffectedOrders

\* What rescheduleOrder returns: the reflow of the whole list with the start
\* of the target replaced, one result per order of allOrders.
RescheduleIsFullReflow ==
  (outcome.returned /\ Rescheduled) =>
    /\ workOrders = UpdatedOrders(probe.workOrderId, probe.newStartDate, probe.allOrders)
    /\ outcome \in PossibleOutcomes(workOrders, workCenters, config)
    /\ outcome.error = NoError => Len(outcome.results) = Len(probe.allOrders)

\* Order 1 is moved to a later start; order 3, on another work center and
\* without dependencies, gets a result that keeps its start.
RescheduleIsFullReflow_Witness ==
  /\ Succeeded
  /\ Rescheduled
  /\ probe.workOrderId = 1
  /\ \E i \in 1..Len(results) :
       /\ results[i].workOrderId = 3
       /\ results[i].workOrderId \notin AffectedOrders
       /\ results[i].newStartDate = results[i].originalStartDate

Finished == pc \in {"done", "failed"}

\* An order of the list is on a work center that has no working time at all
OnIdleCenter(orders, centers) ==
  \E i \in 1..Len(orders) :
    /\ orders[i].workCenterId \in DOMAIN centers
    /\ centers[orders[i].workCenterId].shifts = <<>>
    /\ ~orders[i].isMaintenance

\* C25: a call on a list with an unknown work center fails with
\* MissingWorkCenter whatever else is wrong; otherwise a list with an unknown
\* dependency fails with MissingDependency even if it has a cycle; otherwise
\* a list with a cycle fails with CircularDependency, before any order is
\* scheduled, also when an order could not be placed.
C25_ErrorsInPipelineOrder ==
  Finished =>
    /\ UnknownCenterOrders(workOrders, workCenters) # {}
       => outcome.error.name = "MissingWorkCenterError"
    /\ (UnknownCenterOrders(workOrders, workCenters) = {}
          /\ UnknownDependencies(workOrders) # {})
       => outcome.error.name = "MissingDependencyError"
    /\ (UnknownCenterOrders(workOrders, workCenters) = {}
          /\ UnknownDependencies(workOrders) = {} /\ HasCycle(workOrders))
       => outcome.error.name = "CircularDependencyError"
    /\ outcome.error.name = "CircularDependencyError"
       => /\ results = <<>>
          /\ workCenterAvailability = EmptyMap
          /\ workOrderEndTimes = EmptyMap

\* The list has an unknown work center, an unknown dependency and a cycle at
\* once: MissingWorkCenter is raised.
C25_Witness ==
  /\ pc = "failed"
  /\ outcome.error.name = "MissingWorkCenterError"
  /\ UnknownDependencies(workOrders) # {}
  /\ HasCycle(workOrders)

\* An unknown dependency and a cycle: MissingDependency is raised.
MissingDependencyBeforeCycle ==
  /\ pc = "failed"
  /\ outcome.error.name = "MissingDependencyError"
  /\ HasCycle(workOrders)

\* A cycle and a movable order on a work center without shifts:
\* CircularDependency is raised.
CycleBeforeNoWorkableSlot ==
  /\ pc = "failed"
  /\ outcome.error.name = "CircularDependencyError"
  /\ HasCycle(workOrders)
  /\ OnIdleCenter(workOrders, workCenters)

ReachedScheduling ==
  Finished /\ outcome.error.name \notin {"MissingWorkCenterError", "MissingDependencyError",
                                         "CircularDependencyError"}

\* C26: a call whose scheduling pass meets an order that cannot be placed
\* fails with NoWorkableSlot, and a call that fails with NoWorkableSlot
\* returns no results, no warnings and no metadata, whatever was scheduled
\* before the failure.
C26_NoWorkableSlotAbortsAll ==
  /\ (ReachedScheduling /\ OnIdleCenter(workOrders, workCenters))
     => outcome.error.name = "NoWorkableSlot"
  /\ (Finished /\ outcome.error.name = "NoWorkableSlot")
     => /\ pc = "failed"
        /\ outcome.results = <<>>
        /\ outcome.warnings = <<>>
        /\ outcome.metadata = NoMetadata

\* Two orders were scheduled and one warning collected before the third
\* order failed; nothing of it is returned.
C26_Witness ==
  /\ pc = "failed"
  /\ outcome.error.name = "NoWorkableSlot"
  /\ outcome.error.workOrderId = 3
  /\ Len(results) = 2
  /\ Len(warnings) = 1
  /\ outcome.results = <<>>

\* The three sources of the claim for the k-th result, from the results
\* before it: the original start, the latest end on the same work center,
\* the ends of the declared dependencies
StartSources(k) ==
  (IF config.allowEarlierStart THEN {} ELSE {results[k].originalStartDate})
  \cup (IF \E j \in 1..(k - 1) : SameCenter(j, k)
        THEN {SetMax({results[j].newEndDate : j \in {j \in 1..(k - 1) : SameCenter(j, k)}})}
        ELSE {})
  \cup {results[j].newEndDate :
          j \in {j \in 1..(k - 1) : DeclaresDependency(results[k], results[j].workOrderId)}}

StartsAtEarliestValid(k, sources, wc) ==
  IF sources = {}
  THEN results[k].newStartDate \in {findEarliestValidStart(now, wc) : now \in Nows}
  ELSE results[k].newStartDate = findEarliestValidStart(SetMax(sources), wc)

\* C27: every non-maintenance order starts at findEarliestValidStart of the
\* maximum of its original start (unless an earlier start is allowed), the
\* latest end on its work center among the orders processed before it, and
\* the ends of its declared dependencies; the current time stands in only
\* when there is none of them.
C27_StartIsEarliestValidAfterMax ==
  (pc \in {"scheduling", "done"}) =>
    \A k \in 1..Len(results) :
      ~results[k].isFixed =>
        StartsAtEarliestValid(k, StartSources(k), workCenters[OrderOf(results[k]).workCenterId])

\* The third order has three sources with three different values; the
\* largest, a dependency that ended on another work center, decides.
C27_Witness ==
  /\ Succeeded
  /\ Len(results) = 3
  /\ ~results[3].isFixed
  /\ ~config.allowEarlierStart
  /\ Cardinality(StartSources(3)) = 3
  /\ \E j \in 1..2 :
       /\ ~SameCenter(j, 3)
       /\ DeclaresDependency(results[3], results[j].workOrderId)
       /\ results[j].newEndDate = SetMax(StartSources(3))
       /\ results[3].newStartDate >= results[j].newEndDate

\* No source at all: the order starts at the first valid instant after the
\* current time.
StartsFromCurrentTime ==
  /\ Succeeded
  /\ config.allowEarlierStart
  /\ \E k \in 1..Len(results) : ~results[k].isFixed /\ StartSources(k) = {}

(***************************************************************************)
(* The duration walk ends                                                  *)
(***************************************************************************)
Walking == probe.op = "walking"
Walked == probe.op = "walked"

\* An iteration that does not end the walk moves the cursor forward
WalkAdvances == (Walking /\ probe'.op = "walking") => probe'.cursor > probe.cursor

\* What a finished walk answers: the start for no duration, otherwise an
\* instant after the start or no instant at all (NoWorkableSlot)
WalkAnswered ==
  Walked => IF probe.durationMinutes = 0 THEN probe.answer = probe.from
            ELSE probe.answer = NoTime \/ probe.answer > probe.from

\* C28: calculateEndDateWithShifts ends for every start, duration and work
\* center: a walk that has begun reaches its end, with an end instant or
\* with NoWorkableSlot, and every iteration that goes on moves the cursor
\* forward, also past a slot that contributes no minutes.
C28_WalkTerminates ==
  /\ [][WalkAdvances]_vars
  /\ [](WalkAnswered)
  /\ (Walking ~> Walked)

\* The walk has gone past a slot shorter than one unit: the cursor moved,
\* nothing was consumed
C28_Witness ==
  /\ Walking
  /\ probe.steps > 0
  /\ probe.cursor > probe.from
  /\ probe.remaining = probe.durationMinutes

\* A walk given up because the cursor went past 365 days from the start
WalkPastLimit ==
  /\ Walked
  /\ probe.answer = NoTime
  /\ probe.cursor > probe.from + WalkDays * Day

\* A walk over several slots that ends with an instant
WalkOverSlots ==
  /\ Walked
  /\ probe.steps > 2
  /\ probe.answer # NoTime

\* The walk taken iteration by iteration answers what the function answers
WalkAgreesWithFunction ==
  Walked => probe.answer = calculateEndDateWithShifts(probe.from, probe.durationMinutes,
                                                      probe.wc)

(***************************************************************************)
(* What maintenance leaves of a slot                                       *)
(***************************************************************************)
InWindow(t, windows) ==
  \E k \in 1..Len(windows) : windows[k].startDate <= t /\ t < windows[k].endDate

\* The instants of [a, b) that no window holds
FreeInstants(a, b, windows) == {t \in a..(b - 1) : ~InWindow(t, windows)}

\* <<a2, b2>> is the earliest maximal part of [a, b) free of every window,
\* or empty when the windows leave nothing of [a, b)
EarliestFreePortion(a, b, windows, a2, b2) ==
  IF FreeInstants(a, b, windows) = {} THEN a2 >= b2
  ELSE /\ a2 < b2
       /\ a2 = SetMin(FreeInstants(a, b, windows))
       /\ \A t \in a2..(b2 - 1) : t \in FreeInstants(a, b, windows)
       /\ b2 = b \/ InWindow(b2, windows)

\* Every listing of the same windows leaves the same portion
SameForEveryListing(a, b, windows, portion) ==
  \A perm \in Orderings(Len(windows)) :
    subtractMaintenanceWindows(a, b, Permute(windows, perm)) = portion

\* C29: subtractMaintenanceWindows([a, b), windows) answers the earliest
\* maximal part of [a, b) that meets no maintenance window, answers the
\* empty slot only when the windows together cover [a, b), and answers the
\* same for every order in which the windows are listed.
C29_EarliestFreePortion ==
  Probed("subtractMaintenanceWindows") =>
    /\ EarliestFreePortion(probe.from, probe.until, probe.wc.maintenanceWindows,
                           probe.portion[1], probe.portion[2])
    /\ SameForEveryListing(probe.from, probe.until, probe.wc.maintenanceWindows,
                           probe.portion)

\* For windows listed earliest first the answer is the earliest maximal free
\* part
EarliestFreePortionForChronologicalWindows ==
  (Probed("subtractMaintenanceWindows")
   /\ ListedChronologically(probe.wc.maintenanceWindows)) =>
    EarliestFreePortion(probe.from, probe.until, probe.wc.maintenanceWindows,
                        probe.portion[1], probe.portion[2])

\* Two windows listed earliest first, the slot begins in the first and ends
\* after the second: what is left begins where the second ends
EarliestFreePortionForChronologicalWindows_Witness ==
  /\ Probed("subtractMaintenanceWindows")
  /\ ListedChronologically(probe.wc.maintenanceWindows)
  /\ Len(probe.wc.maintenanceWindows) = 2
  /\ InWindow(probe.from, probe.wc.maintenanceWindows)
  /\ probe.portion[1] > probe.from
  /\ probe.portion[2] = probe.until
  /\ probe.portion[1] < probe.portion[2]

\* A window strictly inside the slot: the part before it is answered
LeftPortionKept ==
  /\ Probed("subtractMaintenanceWindows")
  /\ probe.portion[1] = probe.from
  /\ probe.portion[1] < probe.portion[2]
  /\ probe.portion[2] < probe.until
  /\ ~InWindow(probe.until - 1, probe.wc.maintenanceWindows)

(***************************************************************************)
(* The availability of the work centers during the scheduling pass         *)
(***************************************************************************)
\* The results so far of the orders on work center wc
ProcessedOn(wc) == {j \in 1..Len(results) : OrderOf(results[j]).workCenterId = wc}

AvailabilityIsLatestEnd ==
  \A wc \in DOMAIN workCenters :
    IF ProcessedOn(wc) = {} THEN wc \notin DOMAIN workCenterAvailability
    ELSE /\ wc \in DOMAIN workCenterAvailability
         /\ workCenterAvailability[wc] = SetMax({results[j].newEndDate : j \in ProcessedOn(wc)})

\* Within one reflow an availability on record stays on record and does not
\* go back
AvailabilityGrows ==
  calls' = calls =>
    \A wc \in DOMAIN workCenterAvailability :
      /\ wc \in DOMAIN workCenterAvailability'
      /\ workCenterAvailability'[wc] >= workCenterAvailability[wc]

\* C30: at every point of the scheduling pass the availability of a work
\* center is absent when no order on it has been processed and is otherwise
\* the latest new end among the orders on it processed so far, fixed or
\* not; within a reflow it never goes back.
C30_AvailabilityIsLatestEnd ==
  /\ [](AvailabilityIsLatestEnd)
  /\ [][AvailabilityGrows]_vars

\* A fixed order processed after an order on the same work center that ends
\* later: the availability stays at the later end
C30_Witness ==
  /\ pc \in {"scheduling", "done"}
  /\ \E k \in 1..Len(results) : \E j \in 1..(k - 1) :
       /\ results[k].isFixed
       /\ SameCenter(j, k)
       /\ results[j].newEndDate > results[k].newEndDate
       /\ workCenterAvailability[OrderOf(results[k]).workCenterId] = results[j].newEndDate

\* A work center with no order processed yet while another has an availability
AvailabilityAbsentForIdleCenter ==
  /\ pc = "scheduling"
  /\ Len(results) > 0
  /\ \E wc \in DOMAIN workCenters :
       /\ wc \notin DOMAIN workCenterAvailability
       /\ \E i \in 1..Len(workOrders) : workOrders[i].workCenterId = wc

(***************************************************************************)
(* Work centers do not interfere                                           *)
(***************************************************************************)
IdsOf(orders) == {orders[i].docId : i \in 1..Len(orders)}

IdsOn(orders, wc) == {orders[i].docId : i \in {i \in 1..Len(orders) : orders[i].workCenterId = wc}}

\* The list without the orders whose ids are in `removed`
Without(orders, removed) == SelectSeq(orders, LAMBDA o : o.docId \notin removed)

\* The orders that can bear on the placement of `ids`: the orders they depend
\* on, the orders that share a work center with one of these, and so on
RECURSIVE Bearing(_, _)
Bearing(ids, orders) ==
  LET next == {orders[i].docId : i \in
                 {i \in 1..Len(orders) :
                    \E j \in 1..Len(orders) :
                      /\ orders[j].docId \in ids
                      /\ \/ orders[i].docId \in Range(orders[j].dependsOnWorkOrderIds)
                         \/ orders[i].workCenterId = orders[j].workCenterId}}
  IN IF next \subseteq ids THEN ids ELSE Bearing(ids \cup next, orders)

\* Where a result places its order
Placement(r) == <<r.workOrderId, r.newStartDate, r.newEndDate>>

PlacementsOn(rs, orders, wc) ==
  {Placement(rs[i]) : i \in {i \in 1..Len(rs) : rs[i].workOrderId \in IdsOn(orders, wc)}}

\* The placements on work center wc that a successful reflow of the list can
\* return
PossiblePlacements(orders, centers, cfg, wc) ==
  {PlacementsOn(o.results, orders, wc) :
     o \in {x \in PossibleOutcomes(orders, centers, cfg) : x.error = NoError}}

\* Taking the orders `removed` out of the list leaves the placements on wc
\* as they are, when the shorter list can be scheduled at all
SamePlacementsWithout(removed, wc) ==
  PossiblePlacements(Without(workOrders, removed), workCenters, config, wc) # {} =>
    /\ PossiblePlacements(Without(workOrders, removed), workCenters, config, wc)
         = PossiblePlacements(workOrders, workCenters, config, wc)
    /\ PlacementsOn(results, workOrders, wc)
         \in PossiblePlacements(Without(workOrders, removed), workCenters, config, wc)

UsedCenters == {workOrders[i].workCenterId : i \in 1..Len(workOrders)}

\* Orders on other work centers that no order on wc transitively depends on
Independent(wc) ==
  (IdsOf(workOrders) \ IdsOn(workOrders, wc))
    \ Prerequisites(IdsOn(workOrders, wc), workOrders)

\* Orders that neither the orders on wc depend on nor share a work center
\* with an order that bears on them
Unrelated(wc) == IdsOf(workOrders) \ Bearing(IdsOn(workOrders, wc), workOrders)

\* C31 as stated: after a successful reflow, removing any orders on other
\* work centers that no order on work center W transitively depends on
\* leaves the new start and new end of every order on W unchanged.
C31_IndependentOrdersDoNotInterfere ==
  Succeeded =>
    \A wc \in UsedCenters : \A removed \in (SUBSET Independent(wc)) \ {{}} :
      SamePlacementsWithout(removed, wc)

\* C31, amended: after a successful reflow, removing any orders that are
\* not linked to the orders on work center W by a chain of dependencies and
\* shared work centers leaves the new start and new end of every order on W
\* unchanged.
C31_UnrelatedOrdersDoNotInterfere ==
  Succeeded =>
    \A wc \in UsedCenters : \A removed \in (SUBSET Unrelated(wc)) \ {{}} :
      SamePlacementsWithout(removed, wc)

\* Two movable orders on different work centers, neither linked to the
\* other, occupy the same time, and the list without one of them can be
\* scheduled
C31_Witness ==
  /\ Succeeded
  /\ \E i \in 1..Len(results) : \E j \in 1..Len(results) :
       /\ ~SameCenter(i, j)
       /\ ~results[i].isFixed /\ ~results[j].isFixed
       /\ results[j].workOrderId \in Unrelated(OrderOf(results[i]).workCenterId)
       /\ results[i].newStartDate < results[j].newEndDate
       /\ results[j].newStartDate < results[i].newEndDate
       /\ PossiblePlacements(Without(workOrders, {results[j].workOrderId}), workCenters,
                             config, OrderOf(results[i]).workCenterId) # {}

(***************************************************************************)
(* validateDependencies against the graph functions                        *)
(***************************************************************************)
\* buildDependencyGraph followed by topologicalSort throws nothing
SortSucceedsOn(g) == g.error = NoError /\ topologicalSort(g).error = NoError

BuildAndSortSucceed(orders) == SortSucceedsOn(buildDependencyGraph(orders))

\* C32: validateDependencies answers isValid exactly when
\* buildDependencyGraph followed by topologicalSort succeeds on the same
\* orders, and isValid exactly when its list of errors is empty.
C32_ValidIffSortSucceeds ==
  Validated =>
    /\ probe.answer.isValid <=> BuildAndSortSucceed(workOrders)
    /\ probe.answer.isValid <=> probe.answer.errors = <<>>

\* Every reference exists and none is to the order itself, yet the sort
\* fails and the orders are not valid
C32_Witness ==
  /\ Validated
  /\ ~probe.answer.isValid
  /\ Len(probe.answer.errors) = 1
  /\ Reported("depends on itself") = {}
  /\ Reported("depends on non-existent order") = {}
  /\ ~BuildAndSortSucceed(workOrders)

\* Orders with dependencies among them that are valid and sort
ValidWithDependencies ==
  /\ Validated
  /\ probe.answer.isValid
  /\ \E i \in 1..Len(workOrders) : workOrders[i].dependsOnWorkOrderIds # <<>>
  /\ BuildAndSortSucceed(workOrders)

\* A self-dependency: reported by the first pass, and the sort fails on it
SelfDependencyFailsSort ==
  /\ Validated
  /\ Reported("depends on itself") # {}
  /\ Reported("depends on non-existent order") = {}
  /\ buildDependencyGraph(workOrders).error = NoError
  /\ ~BuildAndSortSucceed(workOrders)

(***************************************************************************)
(* rescheduleOrder against reflow                                          *)
(***************************************************************************)
\* `after` is `before` with nothing but the start date of order id replaced
StartReplaced(before, after, id, text) ==
  /\ Len(after) = Len(before)
  /\ \A i \in 1..Len(before) :
       IF before[i].docId = id
       THEN /\ after[i].startDateText = text
            /\ after[i].startDate = fromISO(text)
            /\ DOMAIN after[i] = DOMAIN before[i]
            /\ \A f \in DOMAIN before[i] \ {"startDateText", "startDate"} :
                 after[i][f] = before[i][f]
       ELSE after[i] = before[i]

\* The list reflow is given by rescheduleOrder and what comes back
RescheduleReturnsReflow ==
  (outcome.returned /\ Rescheduled) =>
    /\ StartReplaced(probe.allOrders, workOrders, probe.workOrderId, probe.newStartDate)
    /\ outcome \in PossibleOutcomes(workOrders, workCenters, config)
    /\ probe.workOrderId \notin IdsOf(probe.allOrders) =>
         outcome \in PossibleOutcomes(probe.allOrders, workCenters, config)

\* The caller's list at the entry of rescheduleOrder is the list the caller
\* held before, and stays as it is during the call
CallersListKept ==
  /\ (probe'.op = "rescheduleOrder" /\ calls' = calls + 1) => probe'.allOrders = workOrders
  /\ (Rescheduled /\ calls' = calls) => probe'.allOrders = probe.allOrders

RescheduleOfUnknownOrder ==
  /\ Succeeded
  /\ Rescheduled
  /\ probe.workOrderId \notin IdsOf(probe.allOrders)
  /\ workOrders = probe.allOrders

(***************************************************************************)
(* Results are intervals                                                   *)
(***************************************************************************)
\* C34: every result of a successful reflow, and of a successful
\* rescheduleOrder, starts no later than it ends, for maintenance orders and
\* for the others alike.
C34_StartNotAfterEnd ==
  Succeeded => \A i \in 1..Len(results) : results[i].newStartDate <= results[i].newEndDate

\* Every result of an order that is not maintenance, and of a maintenance
\* order whose dates came in order, starts no later than it ends
StartNotAfterEndForOrderedDates ==
  Succeeded =>
    \A i \in 1..Len(results) :
      (~results[i].isFixed \/ results[i].originalStartDate <= results[i].originalEndDate)
        => results[i].newStartDate <= results[i].newEndDate

\* A movable order moved by rescheduleOrder past its end date is placed from
\* its new start on
StartNotAfterEndForOrderedDates_Witness ==
  /\ Succeeded
  /\ Rescheduled
  /\ \E i \in 1..Len(results) :
       /\ results[i].workOrderId = probe.workOrderId
       /\ ~results[i].isFixed
       /\ results[i].originalStartDate > results[i].originalEndDate
       /\ results[i].newStartDate < results[i].newEndDate

\* Every result of a plain reflow call starts no later than it ends
StartNotAfterEndForReflow ==
  (Succeeded /\ ~Rescheduled) =>
    \A i \in 1..Len(results) : results[i].newStartDate <= results[i].newEndDate

(***************************************************************************)
(* The state of topologicalSort between its iterations                     *)
(***************************************************************************)
Sorting == pc = "sorting"

Distinct(seq) == \A i \in 1..Len(seq) : \A j \in 1..Len(seq) : seq[i] = seq[j] => i = j

\* No working in-degree is negative; no node is twice in the ready pool or
\* twice in the result, or in both; a node in the ready pool has every
\* prerequisite in the result; the in-degree fields of the graph are those
\* buildDependencyGraph set
SortStateSound ==
  Sorting =>
    /\ \A id \in DOMAIN inDegrees : inDegrees[id] >= 0
    /\ Distinct(readyQueue \o sortedOrders)
    /\ \A k \in 1..Len(readyQueue) :
         Range(graph.nodes[readyQueue[k]].dependencies) \subseteq Range(sortedOrders)
    /\ \A id \in DOMAIN graph.nodes :
         graph.nodes[id].inDegree = Len(graph.nodes[id].workOrder.dependsOnWorkOrderIds)

\* While the sort runs the result only grows, a node that leaves the ready
\* pool goes to the result, and the graph is not touched
SortStepSound ==
  (Sorting /\ pc' = "sorting") =>
    /\ graph' = graph
    /\ \E k \in 0..1 : SubSeq(sortedOrders', 1, Len(sortedOrders') - k) = sortedOrders
    /\ Range(readyQueue) \subseteq Range(readyQueue') \cup Range(sortedOrders')

\* The order reached is the order a second sort of the same graph gives
SortedTwiceAlike ==
  (pc \in {"scheduling", "done"} /\ calls' = calls) =>
    /\ topologicalSort(graph).sortedOrders = sortedOrders
    /\ topologicalSort(graph') = topologicalSort(graph)

\* C35: during topologicalSort no working in-degree is negative, a node
\* enters the ready pool at most once and the result at most once, a node in
\* the ready pool has all its prerequisites in the result, and the in-degree
\* fields of the graph are not modified, so that a second sort of the graph
\* gives the same order.
C35_SortInvariants ==
  /\ [](SortStateSound)
  /\ [][SortStepSound]_vars
  /\ [][SortedTwiceAlike]_vars

\* An order is in the result, another waits in the ready pool, and an order
\* whose prerequisites are all in the result still has a positive in-degree
\* (its dependency list repeats an entry)
C35_Witness ==
  /\ Sorting
  /\ Len(sortedOrders) >= 1
  /\ Len(readyQueue) >= 1
  /\ \E id \in DOMAIN inDegrees :
       /\ inDegrees[id] > 0
       /\ inDegrees[id] < graph.nodes[id].inDegree
       /\ Range(graph.nodes[id].dependencies) \subseteq Range(sortedOrders)

\* A node became ready by the last decrement of its in-degree
ReadyAfterLastPrerequisite ==
  /\ Sorting
  /\ \E k \in 1..Len(readyQueue) :
       /\ graph.nodes[readyQueue[k]].inDegree > 0
       /\ inDegrees[readyQueue[k]] = 0

(***************************************************************************)
(* Transitive dependents and dependencies                                  *)
(***************************************************************************)
Searching == probe.op \in {"getTransitiveDependents", "getTransitiveDependencies"}

SearchRunning == Searching /\ ~probe.ended

SearchEnded == Searching /\ probe.ended

\* The orders one edge away from an order of `ids`: those that declare one of
\* `ids` as a dependency, or those that one of `ids` declares
OneEdgeFrom(ids, orders, direction) ==
  IF direction = "dependents"
  THEN {orders[i].docId : i \in {i \in 1..Len(orders) :
                                   Range(orders[i].dependsOnWorkOrderIds) \cap ids # {}}}
  ELSE UNION {Range(orders[i].dependsOnWorkOrderIds) :
                i \in {i \in 1..Len(orders) : orders[i].docId \in ids}}

RECURSIVE EdgeClosure(_, _, _)
EdgeClosure(found, orders, direction) ==
  IF OneEdgeFrom(found, orders, direction) \subseteq found THEN found
  ELSE EdgeClosure(found \cup OneEdgeFrom(found, orders, direction), orders, direction)

\* The orders reachable from id by one or more edges
ReachableFrom(id, orders, direction) ==
  EdgeClosure(OneEdgeFrom({id}, orders, direction), orders, direction)

\* A search that ended found exactly the orders reachable by one or more
\* edges, as the function taken as one call does
SearchFindsReachable ==
  SearchEnded =>
    /\ Range(probe.search.result)
         = ReachableFrom(probe.workOrderId, workOrders, SearchDirection(probe.op))
    /\ probe.search.result = BfsLoop(BfsStart(probe.workOrderId), graph.nodes,
                                     SearchDirection(probe.op))

\* On the graph of the orders, x is a transitive dependent of y exactly when
\* y is a transitive dependency of x
DependentsMirrorDependencies ==
  Searching =>
    \A x \in ProbeIds : \A y \in ProbeIds :
      x \in Range(getTransitiveDependents(graph, y))
        <=> y \in Range(getTransitiveDependencies(graph, x))

\* C36: on every graph buildDependencyGraph builds, with or without cycles,
\* getTransitiveDependents answers exactly the orders reachable from the id
\* by one or more dependent edges and getTransitiveDependencies exactly
\* those reachable by one or more prerequisite edges; both searches end;
\* x is among the transitive dependents of y exactly when y is among the
\* transitive dependencies of x.
C36_TransitiveClosures ==
  /\ [](SearchFindsReachable)
  /\ [](DependentsMirrorDependencies)
  /\ (SearchRunning ~> SearchEnded)

\* A search for the dependents of an order on a cycle through three orders
\* ends with all three, the order itself included
C36_Witness ==
  /\ SearchEnded
  /\ probe.op = "getTransitiveDependents"
  /\ probe.workOrderId \in Range(probe.search.result)
  /\ Len(probe.search.result) = 3
  /\ probe.steps >= 4

\* A search from an id that no order has ends with nothing
SearchFromUnknownId ==
  /\ SearchEnded
  /\ probe.workOrderId \notin IdsOf(workOrders)
  /\ probe.search.result = <<>>
  /\ probe.steps = 1

\* A chain: the dependencies of an order are found through another order
DependenciesThroughChain ==
  /\ SearchEnded
  /\ probe.op = "getTransitiveDependencies"
  /\ probe.workOrderId \notin Range(probe.search.result)
  /\ \E d \in Range(probe.search.result) :
       d \notin Range(OrderById(workOrders, probe.workOrderId).dependsOnWorkOrderIds)


====
